---- MODULE Spec2Model ----
(***************************************************************************)
(* EZ Stagger (src/ezstagger/__init__.py): the overlay state, the click /  *)
(* hover routing, the stagger drag controller and the ease drag            *)
(* controller, over a small host scene of objects, actions, F-curves and   *)
(* keyframes.                                                              *)
(*                                                                         *)
(* Conventions.  Keyframe times (kp.co.x) are integers: every scene starts *)
(* with integral times and the stagger offsets are integers.  Everything   *)
(* the code computes by float division (handle times, ease factors, view   *)
(* times) is an exact rational <<n, d>>, d > 0, in lowest terms.  kp_index *)
(* is 0-based as in the code; TLA+ sequences are 1-based.  The field kid   *)
(* of a keyframe is a ghost identity: the code never reads it, it only     *)
(* lets a property follow one keyframe through a re-sort of its curve.     *)
(* The host's FCurve.update() is modelled by its re-sort of the keyframes  *)
(* by time; its recalculation of automatic handles is not modelled.        *)
(* last_invoke records what the last operator invoke returned and reported *)
(* (the operators never call self.report).  The grouping decision of the   *)
(* earlier alt-drag operator (src/blender_addons/ezstagger/__init__.py,    *)
(* _prepare_groups) is modelled as pure operators next to the property     *)
(* that compares it with _determine_grouping, and so is its selection-order *)
(* sort.  Spec has the handlers and the loss of an object's action during  *)
(* a gesture; SpecHost adds two more host edits: another action given to   *)
(* an object of the running gesture, and a keyframe deselected between a   *)
(* redraw and the next event.                                              *)
(***************************************************************************)
EXTENDS Integers, Sequences, FiniteSets, TLC

\* ---------------------------------------------------------------- bounds
MaxDelta == 2
MaxSeedOff == 1
MaxGestures == 1
MaxEdits == 1
MaxMouseCell == 8
MaxScroll == 1

NONE == "None"

\* ------------------------------------------------------------- rationals
Abs(n) == IF n < 0 THEN 0 - n ELSE n

RECURSIVE Gcd(_, _)
Gcd(a, b) == IF b = 0 THEN a ELSE Gcd(b, a % b)

Rat(n, d) ==
    LET s == IF d < 0 THEN 0 - 1 ELSE 1
        g == Gcd(Abs(n), Abs(d))
    IN  <<(s * n) \div g, (s * d) \div g>>

R(n) == <<n, 1>>
RAdd(a, b) == Rat(a[1] * b[2] + b[1] * a[2], a[2] * b[2])
RSub(a, b) == Rat(a[1] * b[2] - b[1] * a[2], a[2] * b[2])
RMul(a, b) == Rat(a[1] * b[1], a[2] * b[2])
RDiv(a, b) == Rat(a[1] * b[2], a[2] * b[1])
RLe(a, b) == a[1] * b[2] <= b[1] * a[2]
RLt(a, b) == a[1] * b[2] < b[1] * a[2]
RMax(a, b) == IF RLe(a, b) THEN b ELSE a
RMin(a, b) == IF RLe(a, b) THEN a ELSE b

\* Python's round(): to the nearest integer, halves to the even neighbour.
Round(a) ==
    LET q == a[1] \div a[2]
        r == a[1] % a[2]
    IN  IF 2 * r < a[2] THEN q
        ELSE IF 2 * r > a[2] THEN q + 1
        ELSE IF q % 2 = 0 THEN q ELSE q + 1

\* ------------------------------------------------------------- sequences
RECURSIVE ConcatAll(_)
ConcatAll(ss) == IF ss = <<>> THEN <<>> ELSE Head(ss) \o ConcatAll(Tail(ss))

Reverse(s) == [i \in 1..Len(s) |-> s[Len(s) + 1 - i]]

Swap(s, i, j) == [s EXCEPT ![i] = s[j], ![j] = s[i]]

Range(s) == {s[i] : i \in 1..Len(s)}

\* The stable ascending sort of s by the sort values val (val[i] that of s[i]):
\* the element at i goes after every element with a smaller value and after
\* the earlier elements with an equal value.
SortedBy(s, val) ==
    LET n == Len(s)
        pos(i) == 1 + Cardinality({j \in 1..n :
                        \/ val[j] < val[i]
                        \/ val[j] = val[i] /\ j < i})
    IN  [p \in 1..n |-> s[CHOOSE i \in 1..n : pos(i) = p]]

\* ------------------------------------------------------------ host scene
\* bpy.context.view_layer.objects, in iteration order.
Objects == <<"A", "B">>

Actions == {"ActA", "ActB", "ActC"}

BonePath(bone, prop) == <<"pose.bones[\"", bone, "\"]", prop>>

\* The F-curves of the scene: owning action, data path (as tokens), array index.
CurveInfo ==
    << [action |-> "ActA", data_path |-> BonePath("b1", ".location"), array_index |-> 0],
       [action |-> "ActA", data_path |-> BonePath("b1", ".location"), array_index |-> 1],
       [action |-> "ActA", data_path |-> BonePath("b2", ".location"), array_index |-> 0],
       [action |-> "ActB", data_path |-> <<"location">>, array_index |-> 0],
       [action |-> "ActC", data_path |-> <<"location">>, array_index |-> 0] >>

Curves == 1..Len(CurveInfo)

\* action.layers / strips / slots: one layer, one strip, one slot per action,
\* whose channelbag holds the action's curves in order.
ActionSlots(a) ==
    << SelectSeq([c \in 1..Len(CurveInfo) |-> c], LAMBDA c : CurveInfo[c].action = a) >>

\* _get_fcurves_from_action: the channelbags of every slot, concatenated.
_get_fcurves_from_action(a) == ConcatAll(ActionSlots(a))

\* _parse_bone_name: the text between 'pose.bones["' and the next '"]'.
_parse_bone_name(path) ==
    LET starts == {i \in 1..Len(path) : path[i] = "pose.bones[\""}
    IN  IF path = <<>> \/ starts = {} THEN NONE
        ELSE LET start == (CHOOSE i \in starts : \A j \in starts : i <= j) + 1
                 ends == {i \in start..Len(path) : path[i] = "\"]"}
             IN  IF ends = {} THEN NONE
                 ELSE LET end == CHOOSE i \in ends : \A j \in ends : i <= j
                      IN  IF end = start THEN ""
                          ELSE IF end = start + 1 THEN path[start]
                          ELSE NONE

\* A keyframe point.  Values (co_y, hl_y, hr_y) are distinct per keyframe.
Key(kid, x, hl, hr, hlt, hrt, sel) ==
    [kid |-> kid, co_x |-> x, co_y |-> 10 * kid,
     hl_x |-> hl, hl_y |-> 10 * kid - 1,
     hr_x |-> hr, hr_y |-> 10 * kid + 1,
     hl_type |-> hlt, hr_type |-> hrt, sel |-> sel]


NoKeys == [c \in Curves |-> <<>>]

OwnActions == [o \in Range(Objects) |-> IF o = "A" THEN "ActA" ELSE "ActB"]

\* The scenes a run may start in.  Handle times are rationals.
\*  1: three owners at times 1, 2, 3 (the 10/20/30 scenario, scaled); the
\*     latest curve also holds an unselected keyframe at 5.  An action no
\*     object uses (ActC, scenes 1 and 7) holds one unselected keyframe.
\*  2: three owners, the first two with the same earliest time.
\*  3: one owner, two curves (channel grouping); handles past the previous
\*     keyframe and pointing the wrong way; automatic handle kinds.
\*  4: one curve only: a single channel.
\*  5: both objects use the same action.
\*  6: nothing selected.
\*  7: two owners, one of them with two selected channels.
Scenes ==
    { [kps |-> [NoKeys EXCEPT
            ![1] = << Key(11, 1, R(0), R(2), "AUTO_CLAMPED", "AUTO_CLAMPED", TRUE) >>,
            ![3] = << Key(31, 2, Rat(3, 2), Rat(5, 2), "FREE", "ALIGNED", TRUE) >>,
            ![4] = << Key(41, 3, R(2), R(4), "FREE", "FREE", TRUE),
                      Key(42, 5, R(4), R(6), "FREE", "FREE", FALSE) >>,
            ![5] = << Key(51, 4, R(3), R(5), "FREE", "FREE", FALSE) >>],
       action |-> OwnActions],
      [kps |-> [NoKeys EXCEPT
            ![1] = << Key(11, 2, R(1), R(3), "FREE", "FREE", TRUE) >>,
            ![3] = << Key(31, 2, R(1), R(3), "FREE", "FREE", TRUE) >>,
            ![4] = << Key(41, 4, R(3), R(5), "VECTOR", "FREE", TRUE) >>],
       action |-> OwnActions],
      [kps |-> [NoKeys EXCEPT
            ![1] = << Key(11, 0, R(0 - 1), R(1), "AUTO", "AUTO", FALSE),
                      Key(12, 4, R(0 - 1), R(3), "AUTO", "AUTO_CLAMPED", TRUE),
                      Key(13, 8, R(7), R(9), "AUTO", "AUTO", FALSE) >>,
            ![2] = << Key(21, 2, R(1), R(3), "FREE", "FREE", FALSE),
                      Key(22, 4, R(3), R(5), "ALIGNED", "ALIGNED", TRUE) >>],
       action |-> OwnActions],
      [kps |-> [NoKeys EXCEPT
            ![1] = << Key(11, 2, R(1), Rat(5, 2), "AUTO", "FREE", TRUE),
                      Key(12, 4, R(3), R(7), "FREE", "VECTOR", TRUE),
                      Key(13, 6, R(5), R(7), "FREE", "FREE", FALSE) >>],
       action |-> OwnActions],
      [kps |-> [NoKeys EXCEPT
            ![1] = << Key(11, 2, R(1), R(3), "AUTO", "FREE", TRUE),
                      Key(12, 4, R(3), R(5), "FREE", "FREE", FALSE) >>],
       action |-> [o \in Range(Objects) |-> "ActA"]],
      [kps |-> [NoKeys EXCEPT
            ![1] = << Key(11, 2, R(1), R(3), "FREE", "FREE", FALSE) >>],
       action |-> OwnActions],
      [kps |-> [NoKeys EXCEPT
            ![1] = << Key(11, 1, R(0), R(2), "FREE", "FREE", TRUE) >>,
            ![2] = << Key(21, 2, R(1), R(3), "FREE", "FREE", TRUE) >>,
            ![4] = << Key(41, 3, R(2), R(4), "FREE", "FREE", TRUE) >>,
            ![5] = << Key(51, 3, R(2), R(4), "FREE", "FREE", FALSE) >>],
       action |-> OwnActions] }

\* --------------------------------------------------- keyframe collection
\* The dict _collect_selected_keyframes appends for keyframe kp_idx of curve c
\* reached through object obj.  kid is the ghost identity of that keyframe.
Snapshot(obj, act, c, kp_idx, kp) ==
    [obj_name |-> obj, action_name |-> act,
     data_path |-> CurveInfo[c].data_path, array_index |-> CurveInfo[c].array_index,
     bone_name |-> _parse_bone_name(CurveInfo[c].data_path),
     kp_index |-> kp_idx,
     frame |-> kp.co_x, value |-> kp.co_y,
     hl_x |-> kp.hl_x, hl_y |-> kp.hl_y, hr_x |-> kp.hr_x, hr_y |-> kp.hr_y,
     hl_type |-> kp.hl_type, hr_type |-> kp.hr_type,
     kid |-> kp.kid]

\* _collect_selected_keyframes: objects, then curves, then keyframes, in order.
_collect_selected_keyframes(k, act) ==
    LET OfCurve(obj, c) ==
            LET idxs == SelectSeq([i \in 1..Len(k[c]) |-> i], LAMBDA i : k[c][i].sel)
            IN  [j \in 1..Len(idxs) |-> Snapshot(obj, act[obj], c, idxs[j] - 1, k[c][idxs[j]])]
        OfObject(obj) ==
            IF act[obj] = NONE THEN <<>>
            ELSE LET fcs == _get_fcurves_from_action(act[obj])
                 IN  ConcatAll([ci \in 1..Len(fcs) |-> OfCurve(obj, fcs[ci])])
    IN  ConcatAll([oi \in 1..Len(Objects) |-> OfObject(Objects[oi])])

NoKey == [fc |-> 0, i |-> 0]

\* _get_fcurve_and_keypoint: the first curve of the object's current action
\* with the item's data path and array index, whose keyframe list is long
\* enough; the action name is not compared.  i is the 1-based position.
\* A lookup that also compares the name of the object's action with the
\* snapshot's.
GetKeypointOfSameAction(it, k, act) ==
    IF act[it.obj_name] = NONE \/ act[it.obj_name] # it.action_name THEN NoKey
    ELSE LET fcs == _get_fcurves_from_action(act[it.obj_name])
             hits == SelectSeq(fcs, LAMBDA c :
                        /\ CurveInfo[c].data_path = it.data_path
                        /\ CurveInfo[c].array_index = it.array_index
                        /\ 0 <= it.kp_index /\ it.kp_index < Len(k[c]))
         IN  IF hits = <<>> THEN NoKey ELSE [fc |-> hits[1], i |-> it.kp_index + 1]

_get_fcurve_and_keypoint(it, k, act) ==
    IF act[it.obj_name] = NONE THEN NoKey
    ELSE LET fcs == _get_fcurves_from_action(act[it.obj_name])
             hits == SelectSeq(fcs, LAMBDA c :
                        /\ CurveInfo[c].data_path = it.data_path
                        /\ CurveInfo[c].array_index = it.array_index
                        /\ 0 <= it.kp_index /\ it.kp_index < Len(k[c]))
         IN  IF hits = <<>> THEN NoKey ELSE [fc |-> hits[1], i |-> it.kp_index + 1]

\* ------------------------------------------------- grouping and ordering
BoneOrEmpty(it) == IF it.bone_name = NONE THEN "" ELSE it.bone_name

OwnerKey(it) == <<it.obj_name, BoneOrEmpty(it)>>

ChannelKey(it) == <<it.obj_name, it.data_path, it.array_index>>

\* The keys of the dict `groups`, in insertion (first appearance) order.
RECURSIVE FirstKeys(_)
FirstKeys(keys) ==
    IF keys = <<>> THEN <<>>
    ELSE LET init == FirstKeys(SubSeq(keys, 1, Len(keys) - 1))
             key == keys[Len(keys)]
         IN  IF key \in Range(init) THEN init ELSE Append(init, key)

EarliestFrame(group) ==
    CHOOSE f \in {group[i].frame : i \in 1..Len(group)} :
        \A i \in 1..Len(group) : f <= group[i].frame

\* _determine_grouping: by (object, bone) when the items have more than one
\* owner, else by (object, data path, array index); the groups sorted by their
\* earliest frame (sorted() is stable).
\* item_keys[i] is the grouping key of items[i].
GroupsBy(items, item_keys) ==
    LET keys == FirstKeys(item_keys)
        members(k) == SelectSeq([i \in 1..Len(items) |-> i], LAMBDA i : item_keys[i] = keys[k])
        groups == [k \in 1..Len(keys) |-> [j \in 1..Len(members(k)) |-> items[members(k)[j]]]]
    IN  SortedBy(groups, [k \in 1..Len(groups) |-> EarliestFrame(groups[k])])

\* Grouping by (object, bone) whatever the number of owners.
GroupByOwnerAlways(items) ==
    IF items = <<>> THEN <<>>
    ELSE GroupsBy(items, [i \in 1..Len(items) |-> OwnerKey(items[i])])

_determine_grouping(items) ==
    IF items = <<>> THEN <<>>
    ELSE IF Cardinality({OwnerKey(items[i]) : i \in 1..Len(items)}) > 1
         THEN GroupsBy(items, [i \in 1..Len(items) |-> OwnerKey(items[i])])
         ELSE GroupsBy(items, [i \in 1..Len(items) |-> ChannelKey(items[i])])

\* random.Random(seed)._randbelow(i + 1) for i = n-1 down to 1: the draws
\* CPython's Mersenne Twister makes for a shuffle of n elements.
RandBelowDraws(seed, n) ==
    IF n < 2 THEN <<>>
    ELSE LET t2 == << <<1>>, <<0>>, <<1>>, <<1>>, <<0>>, <<0>>, <<1>>, <<1>>, <<0>> >>
             t3 == << <<2, 1>>, <<0, 1>>, <<1, 0>>, <<1, 1>>, <<2, 0>>,
                      <<0, 1>>, <<1, 0>>, <<1, 1>>, <<0, 1>> >>
             t4 == << <<3, 1, 0>>, <<1, 1, 1>>, <<3, 2, 0>>, <<3, 1, 0>>, <<0, 0, 1>>,
                      <<0, 1, 0>>, <<3, 2, 0>>, <<2, 1, 1>>, <<0, 1, 0>> >>
         IN  (<<t2, t3, t4>>[n - 1])[seed - 37]

\* random.Random.shuffle: for i in reversed(range(1, len(x))): swap x[i], x[j].
RECURSIVE ShuffleFrom(_, _, _)
ShuffleFrom(x, draws, k) ==
    IF k > Len(draws) THEN x
    ELSE ShuffleFrom(Swap(x, Len(x) - k + 1, draws[k] + 1), draws, k + 1)

\* A draw with replacement (random.choices) where the source shuffles: the
\* element at each position is picked by that position's draw.
ShuffleWithReplacement(seed, x) ==
    LET draws == RandBelowDraws(seed, Len(x))
    IN  [i \in 1..Len(x) |-> x[(IF i <= Len(draws) THEN draws[i] ELSE 0) + 1]]

Shuffle(seed, x) == ShuffleFrom(x, RandBelowDraws(seed, Len(x)), 1)

\* ------------------------------------------------------- keyframe writes
\* FCurve.update(): the keyframes re-sorted by time (equal times keep their order).
FCurveUpdate(ks) == SortedBy(ks, [i \in 1..Len(ks) |-> ks[i].co_x])


\* The body of the loop of _apply for one resolved item: time and both handle
\* times from the stored originals plus the channel's offset.
StaggerWrite(kp, job) ==
    [kp EXCEPT !.co_x = job.it.frame + job.offset,
               !.hl_x = RAdd(job.it.hl_x, R(job.offset)),
               !.hr_x = RAdd(job.it.hr_x, R(job.offset))]

\* An ease write that moves the handle from where it is now instead of placing
\* it from the keyframe's time.
EaseWriteFromHandle(kp, ks, job) ==
    LET it == job.it
        free == [kp EXCEPT !.hl_type = "FREE", !.hr_type = "FREE"]
    IN  IF job.is_in /\ it.kp_index > 0
        THEN [free EXCEPT !.hl_x = RSub(kp.hl_x,
                    RMul(R(it.frame - ks[it.kp_index].co_x), job.factor))]
        ELSE IF ~job.is_in /\ it.kp_index < Len(ks) - 1
        THEN [free EXCEPT !.hr_x = RAdd(kp.hr_x,
                    RMul(R(ks[it.kp_index + 2].co_x - it.frame), job.factor))]
        ELSE free

\* The body of the loop of _apply_ease for one resolved item; ks is the live
\* keyframe list of its curve.
EaseWrite(kp, ks, job) ==
    LET it == job.it
        free == [kp EXCEPT !.hl_type = "FREE", !.hr_type = "FREE"]
        frame == it.frame
        kp_idx == it.kp_index
    IN  IF job.is_in /\ kp_idx > 0
        THEN LET prev_frame == ks[kp_idx].co_x
                 max_dist == frame - prev_frame
             IN  [free EXCEPT !.hl_x = RSub(R(frame), RMul(R(max_dist), job.factor)),
                              !.hl_y = it.hl_y]
        ELSE IF ~job.is_in /\ kp_idx < Len(ks) - 1
        THEN LET next_frame == ks[kp_idx + 2].co_x
                 max_dist == next_frame - frame
             IN  [free EXCEPT !.hr_x = RAdd(R(frame), RMul(R(max_dist), job.factor)),
                              !.hr_y = it.hr_y]
        ELSE free

\* A restore of the handle positions that leaves the handle kinds as they are.
RestorePositionsOnly(kp, job) ==
    [kp EXCEPT !.hl_x = job.it.hl_x, !.hl_y = job.it.hl_y,
               !.hr_x = job.it.hr_x, !.hr_y = job.it.hr_y]

\* The body of the loop of _restore for one resolved item.
RestoreWrite(kp, job) ==
    [kp EXCEPT !.hl_type = job.it.hl_type, !.hr_type = job.it.hr_type,
               !.hl_x = job.it.hl_x, !.hl_y = job.it.hl_y,
               !.hr_x = job.it.hr_x, !.hr_y = job.it.hr_y]

WriteKey(kind, kp, ks, job) ==
    CASE kind = "stagger" -> StaggerWrite(kp, job)
      [] kind = "ease" -> EaseWrite(kp, ks, job)
      [] kind = "restore" -> RestoreWrite(kp, job)

\* The write loop with a break where the source has a continue: it stops at
\* the first item that does not resolve.
RECURSIVE WriteAllUntilUnresolved(_, _, _, _, _)
WriteAllUntilUnresolved(kind, work, i, w, act) ==
    IF i > Len(work) THEN w
    ELSE LET at == _get_fcurve_and_keypoint(work[i].it, w.kps, act)
         IN  IF at = NoKey THEN w
             ELSE WriteAllUntilUnresolved(kind, work, i + 1,
                     [kps |-> [w.kps EXCEPT ![at.fc][at.i] =
                                    WriteKey(kind, @, w.kps[at.fc], work[i])],
                      fcs |-> w.fcs \cup {at.fc}],
                     act)

\* "for it in ...: fc, kp = _get_fcurve_and_keypoint(...); if not fc or not kp:
\* continue; <write>; fcs.add(fc)", from job i on.  w = [kps, fcs].
RECURSIVE WriteAll(_, _, _, _, _)
WriteAll(kind, work, i, w, act) ==
    IF i > Len(work) THEN w
    ELSE LET at == _get_fcurve_and_keypoint(work[i].it, w.kps, act)
         IN  IF at = NoKey THEN WriteAll(kind, work, i + 1, w, act)
             ELSE WriteAll(kind, work, i + 1,
                     [kps |-> [w.kps EXCEPT ![at.fc][at.i] =
                                    WriteKey(kind, @, w.kps[at.fc], work[i])],
                      fcs |-> w.fcs \cup {at.fc}],
                     act)

\* The update loop without its try/except: the first update that raises ends
\* the loop (taken in curve order) and the exception leaves the handler.
UpdateLoopUnguarded(w, failing) ==
    LET reached == {c \in w.fcs : \A d \in w.fcs \cap failing : c <= d}
    IN  [kps |-> [c \in Curves |->
                    IF c \in reached \ failing THEN FCurveUpdate(w.kps[c]) ELSE w.kps[c]],
         requests |-> [c \in Curves |-> IF c \in reached THEN 1 ELSE 0],
         raised |-> w.fcs \cap failing # {}]

\* "for fc in fcs: try: fc.update() except: pass", where update() raises for
\* the curves of `failing`: the keyframes left, the number of update() calls
\* made for each curve, and whether an exception leaves the loop.
UpdateLoop(w, failing) ==
    [kps |-> [c \in Curves |->
                IF c \in w.fcs \ failing THEN FCurveUpdate(w.kps[c]) ELSE w.kps[c]],
     requests |-> [c \in Curves |-> IF c \in w.fcs THEN 1 ELSE 0],
     raised |-> FALSE]

\* The update loop where no update() raises.
UpdateAll(w) == UpdateLoop(w, {}).kps

\* The (item, offset) pairs of _apply in loop order: offset = idx * delta.
StaggerWork(groups, delta) ==
    ConcatAll([g \in 1..Len(groups) |->
        [j \in 1..Len(groups[g]) |-> [it |-> groups[g][j], offset |-> (g - 1) * delta]]])

\* EZSTAGGER_OT_stagger._apply
_apply(groups, delta, k, act) ==
    UpdateAll(WriteAll("stagger", StaggerWork(groups, delta), 1, [kps |-> k, fcs |-> {}], act))

\* EZSTAGGER_OT_ease._apply_ease
_apply_ease(data, is_in, factor, k, act) ==
    UpdateAll(WriteAll("ease",
        [j \in 1..Len(data) |-> [it |-> data[j], is_in |-> is_in, factor |-> factor]],
        1, [kps |-> k, fcs |-> {}], act))

\* EZSTAGGER_OT_ease._restore
_restore(data, k, act) ==
    UpdateAll(WriteAll("restore", [j \in 1..Len(data) |-> [it |-> data[j]]],
        1, [kps |-> k, fcs |-> {}], act))

\* ------------------------------------------------------- displayed ease
\* The ratio as computed, without the clamp.
Unclamped(r) == r

\* max(0.0, min(1.0, ease))
Clamp01(r) == RMax(R(0), RMin(R(1), r))

\* The per-keyframe ratios before clamping, in (object, curve, keyframe)
\* order: side "in" towards the previous keyframe, "out" towards the next.
EaseRatios(side, k, act) ==
    LET OfCurve(c) ==
            LET ks == k[c]
                ok(i) == /\ ks[i].sel
                         /\ IF side = "in" THEN i > 1 /\ ks[i].co_x - ks[i - 1].co_x > 0
                            ELSE i < Len(ks) /\ ks[i + 1].co_x - ks[i].co_x > 0
                idxs == SelectSeq([i \in 1..Len(ks) |-> i], ok)
                ratio(i) == IF side = "in"
                            THEN RDiv(RSub(R(ks[i].co_x), ks[i].hl_x),
                                      R(ks[i].co_x - ks[i - 1].co_x))
                            ELSE RDiv(RSub(ks[i].hr_x, R(ks[i].co_x)),
                                      R(ks[i + 1].co_x - ks[i].co_x))
            IN  [j \in 1..Len(idxs) |-> ratio(idxs[j])]
        OfObject(obj) ==
            IF act[obj] = NONE THEN <<>>
            ELSE LET fcs == _get_fcurves_from_action(act[obj])
                 IN  ConcatAll([ci \in 1..Len(fcs) |-> OfCurve(fcs[ci])])
    IN  ConcatAll([oi \in 1..Len(Objects) |-> OfObject(Objects[oi])])

\* ease_in_vals / ease_out_vals: each ratio clamped as it is appended.
EaseVals(side, k, act) ==
    LET raw == EaseRatios(side, k, act)
    IN  [j \in 1..Len(raw) |-> Clamp01(raw[j])]

RECURSIVE RSum(_)
RSum(vals) == IF vals = <<>> THEN R(0) ELSE RAdd(Head(vals), RSum(Tail(vals)))

\* sum(vals) / len(vals) if vals else 0.33
EaseMean(vals) == IF vals = <<>> THEN Rat(33, 100) ELSE RDiv(RSum(vals), R(Len(vals)))

\* _calculate_current_ease
_calculate_current_ease(k, act) ==
    <<EaseMean(EaseVals("in", k, act)), EaseMean(EaseVals("out", k, act))>>


\* --------------------------------------------------------- the 2D view
\* region.view2d of the dope sheet: 40 pixels per frame, frame 0 at pixel 12;
\* the region is 200 pixels high and as wide as the pointer grid.  An absent
\* tuple or number (Python's None) is the empty sequence.
ViewToRegionX(frame) == 40 * frame + 12

RegionToViewX(mx) == Rat(mx - 12, 40)

RegionWidth == 40 * MaxMouseCell

\* Pointer positions of the events: a 40-pixel grid of columns, one of them
\* left of the region, and the rows of the gizmos and of the two sliders.
MouseXs == {40 * c : c \in (0 - 1)..MaxMouseCell}

MouseYs == {80, 90, 100, 110, 120}

\* ------------------------------------------------------------- overlay
\* _get_selection_info, called from the dope sheet's own draw callback:
\* <<bbox, num_groups>>, bbox = <<>> when nothing is selected.
_get_selection_info(k, act) ==
    LET selected == _collect_selected_keyframes(k, act)
    IN  IF selected = <<>> THEN << <<>>, 0 >>
        ELSE LET groups == _determine_grouping(selected)
                 frames == {selected[i].frame : i \in 1..Len(selected)}
                 min_frame == CHOOSE f \in frames : \A g \in frames : f <= g
                 max_frame == CHOOSE f \in frames : \A g \in frames : f >= g
                 x1 == ViewToRegionX(min_frame)
                 x2 == ViewToRegionX(max_frame)
                 region_height == 200
                 y_center == region_height \div 2
                 y_extent == 30
             IN  << <<x1 - 10, x2 + 10, y_center - y_extent, y_center + y_extent>>,
                    Len(groups) >>

\* Gizmos drawn whatever the number of channels.
GizmosAlways(num_groups, gizmo_x, mid_y) ==
    << <<gizmo_x, mid_y + 22, "REVERSE">>,
       <<gizmo_x, mid_y, "RANDOM">>,
       <<gizmo_x, mid_y - 22, "NORMAL">> >>

\* draw_widgets, "STAGGER GIZMOS (if 2+ groups)": the three gizmos, top to
\* bottom, or the empty list of the else branch.
GizmoPositions(num_groups, gizmo_x, mid_y) ==
    LET sp == 22
    IN  IF num_groups >= 2
        THEN << <<gizmo_x, mid_y + sp, "REVERSE">>,
                <<gizmo_x, mid_y, "RANDOM">>,
                <<gizmo_x, mid_y - sp, "NORMAL">> >>
        ELSE <<>>

\* A draw callback whose no-selection branch clears the flag only and leaves
\* the gizmo list and the slider bounds of the last draw in place.
DrawWidgetsKeepsLists(s, k, act) ==
    LET info == _get_selection_info(k, act)
        bbox == info[1]
        num_groups == info[2]
    IN  IF bbox = <<>> \/ num_groups = 0
        THEN [s EXCEPT !.num_groups = num_groups, !.has_selection = FALSE]
        ELSE LET x2 == bbox[2]
                 mid_y == (bbox[3] + bbox[4]) \div 2
                 gizmo_x == x2 + 18
                 positions == GizmoPositions(num_groups, gizmo_x, mid_y)
                 current_x == IF num_groups >= 2 THEN gizmo_x + 22 ELSE gizmo_x
                 ease == IF s.dragging_ease = NONE THEN _calculate_current_ease(k, act)
                         ELSE <<s.ease_in, s.ease_out>>
                 sw == 80
                 sh == 14
                 ssp == 6
                 pad == 8
                 lbl_w == 22
                 ph == sh * 2 + ssp + pad * 2
                 px == current_x + 8
                 pb == mid_y - ph \div 2
                 slx == px + pad + lbl_w
                 sly_out == pb + pad
                 sly_in == sly_out + sh + ssp
             IN  [s EXCEPT !.num_groups = num_groups, !.has_selection = TRUE,
                           !.bbox = bbox, !.gizmo_positions = positions,
                           !.ease_in = ease[1], !.ease_out = ease[2],
                           !.ease_slider_bounds =
                                << <<"EASE_IN", slx, sly_in, sw, sh>>,
                                   <<"EASE_OUT", slx, sly_out, sw, sh>> >>]

\* draw_widgets, past its context checks: what it leaves in the overlay state.
draw_widgets(s, k, act) ==
    LET info == _get_selection_info(k, act)
        bbox == info[1]
        num_groups == info[2]
    IN  IF bbox = <<>> \/ num_groups = 0
        THEN [s EXCEPT !.num_groups = num_groups, !.has_selection = FALSE,
                       !.gizmo_positions = <<>>, !.ease_slider_bounds = <<>>]
        ELSE LET x2 == bbox[2]
                 mid_y == (bbox[3] + bbox[4]) \div 2
                 gizmo_x == x2 + 18
                 positions == GizmoPositions(num_groups, gizmo_x, mid_y)
                 current_x == IF num_groups >= 2 THEN gizmo_x + 22 ELSE gizmo_x
                 ease == IF s.dragging_ease = NONE THEN _calculate_current_ease(k, act)
                         ELSE <<s.ease_in, s.ease_out>>
                 sw == 80
                 sh == 14
                 ssp == 6
                 pad == 8
                 lbl_w == 22
                 ph == sh * 2 + ssp + pad * 2
                 px == current_x + 8
                 pb == mid_y - ph \div 2
                 slx == px + pad + lbl_w
                 sly_out == pb + pad
                 sly_in == sly_out + sh + ssp
             IN  [s EXCEPT !.num_groups = num_groups, !.has_selection = TRUE,
                           !.bbox = bbox, !.gizmo_positions = positions,
                           !.ease_in = ease[1], !.ease_out = ease[2],
                           !.ease_slider_bounds =
                                << <<"EASE_IN", slx, sly_in, sw, sh>>,
                                   <<"EASE_OUT", slx, sly_out, sw, sh>> >>]

\* check_gizmo: the first gizmo within 10 pixels, or NONE.
check_gizmo(s, mx, my) ==
    IF ~s.has_selection \/ s.num_groups < 2 THEN NONE
    ELSE LET hits == SelectSeq(s.gizmo_positions, LAMBDA g :
                        (mx - g[1]) * (mx - g[1]) + (my - g[2]) * (my - g[2]) <= 100)
         IN  IF hits = <<>> THEN NONE ELSE hits[1][3]

\* check_ease: the first slider whose rectangle holds the point, or NONE.
check_ease(s, mx, my) ==
    IF ~s.has_selection THEN NONE
    ELSE LET hits == SelectSeq(s.ease_slider_bounds, LAMBDA b :
                        /\ b[2] <= mx /\ mx <= b[2] + b[4]
                        /\ b[3] <= my /\ my <= b[3] + b[5])
         IN  IF hits = <<>> THEN NONE ELSE hits[1][1]

\* ---------------------------------------------------------------- state
VARIABLES
    kps,        \* host: curve -> its keyframe_points, in the curve's order
    action,     \* host: object -> the action of its animation data, or NONE
    state,      \* the StaggerWidgetState singleton
    st,         \* the stagger operator running or last run
    ez,         \* the ease operator running or last run
    ngest,      \* gestures finished (committed or canceled) so far
    nedits,     \* host edits made so far
    last_invoke \* the last invoke of the stagger or ease operator: its return
                \* value and the reports it made

vars == <<kps, action, state, st, ez, ngest, nedits, last_invoke>>

DefaultSeed == 42

\* StaggerWidgetState.__new__
InitialState ==
    [enabled |-> TRUE, hovered |-> NONE, random_seed |-> DefaultSeed,
     gizmo_positions |-> <<>>, has_selection |-> FALSE, bbox |-> <<>>,
     num_groups |-> 0, ease_in |-> R(1), ease_out |-> R(1),
     hover_ease |-> NONE, dragging_ease |-> NONE, ease_slider_bounds |-> <<>>]

\* The class attributes of EZSTAGGER_OT_stagger; status tells whether its
\* modal handler is installed, handler whether _handler holds a draw handler;
\* removes is a ghost: the calls of draw_handler_remove the operator made.
IdleStagger ==
    [status |-> "IDLE", mode |-> "NORMAL", seed |-> DefaultSeed,
     groups_orig |-> <<>>, groups |-> <<>>, init_time |-> R(0),
     last_delta |-> <<>>, handler |-> FALSE, removes |-> 0]

\* The class attributes of EZSTAGGER_OT_ease; applied is a ghost: _apply_ease
\* has run in this gesture.
IdleEase ==
    [status |-> "IDLE", ease_type |-> "EASE_IN", bounds |-> <<0, 0, 0, 0>>,
     data |-> <<>>, start_val |-> R(1), applied |-> FALSE]

\* No operator invoked yet.
NoInvoke == [op |-> NONE, result |-> NONE, reports |-> <<>>]

\* What an invoke leaves behind: the operator, its return value and the
\* (type, message) pairs it passed to self.report.
Invoked(op, result, reports) == [op |-> op, result |-> result, reports |-> reports]

Init ==
    /\ \E sc \in Scenes : kps = sc.kps /\ action = sc.action
    /\ state = InitialState
    /\ st = IdleStagger
    /\ ez = IdleEase
    /\ ngest = 0
    /\ nedits = 0
    /\ last_invoke = NoInvoke


\* ---------------------------------------------------------------- events
Event(type, value, mx, my, alt) ==
    [type |-> type, value |-> value, mx |-> mx, my |-> my, alt |-> alt]

\* Pointer moves anywhere on the pointer grid; wheel steps and the moves a
\* running modal operator receives along the middle row.
MoveEvents == {Event("MOUSEMOVE", "NOTHING", mx, my, FALSE) : mx \in MouseXs, my \in MouseYs}

WheelEvents ==
    {Event(t, "PRESS", mx, 100, FALSE) : t \in {"WHEELUPMOUSE", "WHEELDOWNMOUSE"}, mx \in MouseXs}

DragEvents == {Event("MOUSEMOVE", "NOTHING", mx, 100, FALSE) : mx \in MouseXs}

\* Left button presses without a modifier, anywhere on the pointer grid.
ClickEvents == {Event("LEFTMOUSE", "PRESS", mx, my, FALSE) : mx \in MouseXs, my \in MouseYs}

\* Alt + left button presses, on a column and between two columns.
AltClickEvents == {Event("LEFTMOUSE", "PRESS", mx, 100, TRUE) : mx \in {40, 60}}

\* What a running modal operator may receive besides pointer events.
ButtonEvents ==
    {Event("LEFTMOUSE", v, 0, 100, FALSE) : v \in {"PRESS", "RELEASE"}}
    \cup {Event(t, "PRESS", 0, 100, FALSE) : t \in {"RIGHTMOUSE", "ESC", "A"}}
    \cup {Event(t, "RELEASE", 0, 100, FALSE) : t \in {"RET", "NUMPAD_ENTER"}}

ModalEvents == DragEvents \cup WheelEvents \cup ButtonEvents

\* modal, "# Cancel": event.type in {'ESC', 'RIGHTMOUSE'}
StaggerCancelEvent(e) == e.type \in {"ESC", "RIGHTMOUSE"}

\* A confirm test that forgets the event's value: a press confirms too.
StaggerConfirmOnPress(e) == e.type \in {"LEFTMOUSE", "RET", "NUMPAD_ENTER"}

\* modal, "# Confirm": one of the three confirm keys, released.
StaggerConfirmEvent(e) ==
    e.type \in {"LEFTMOUSE", "RET", "NUMPAD_ENTER"} /\ e.value = "RELEASE"

\* The return value of EZSTAGGER_OT_stagger.modal for an event.
StaggerModalResult(mode, e) ==
    IF StaggerCancelEvent(e) THEN "CANCELLED"
    ELSE IF mode = "RANDOM" /\ e.type \in {"WHEELUPMOUSE", "WHEELDOWNMOUSE"} THEN "RUNNING_MODAL"
    ELSE IF e.type = "MOUSEMOVE" THEN "RUNNING_MODAL"
    ELSE IF StaggerConfirmEvent(e) THEN "FINISHED"
    ELSE "RUNNING_MODAL"

\* A modal handler that lets every event through to the keymap.
EasePassesThrough(e) == "PASS_THROUGH"

\* The return value of EZSTAGGER_OT_ease.modal for an event.
EaseModalResult(e) ==
    IF e.type = "MOUSEMOVE" THEN "RUNNING_MODAL"
    ELSE IF e.type = "LEFTMOUSE" /\ e.value = "RELEASE" THEN "FINISHED"
    ELSE IF e.type \in {"RIGHTMOUSE", "ESC"} THEN "CANCELLED"
    ELSE "RUNNING_MODAL"

\* The window manager hands an event to the modal handlers first; the keymap
\* operators (hover, click, alt-click) see it only if every running modal
\* operator returned PASS_THROUGH for it.
KeymapReached(e) ==
    /\ st.status = "ACTIVE" => StaggerModalResult(st.mode, e) = "PASS_THROUGH"
    /\ ez.status = "ACTIVE" => EaseModalResult(e) = "PASS_THROUGH"

SeedInRange(seed) == DefaultSeed - MaxSeedOff <= seed /\ seed <= DefaultSeed + MaxSeedOff

\* A button press follows a pointer move to the same position, which the hover
\* operator has handled: the hover targets are those of the press position.
PointerAt(e) ==
    /\ state.hovered = check_gizmo(state, e.mx, e.my)
    /\ state.hover_ease = check_ease(state, e.mx, e.my)

\* ---------------------------------------------------------------- redraw
\* draw_widgets, the dope sheet's POST_PIXEL callback registered by register().
\* While the stagger operator runs every event goes to its modal() and nothing
\* reads the overlay state, and a redraw then leaves what a redraw right after
\* the gesture leaves: the model draws before and after the gesture.
Redraw ==
    /\ st.status # "ACTIVE"
    /\ state' = IF state.enabled THEN draw_widgets(state, kps, action) ELSE state
    /\ UNCHANGED <<kps, action, st, ez, ngest, nedits, last_invoke>>

\* ----------------------------------------------------------------- hover
\* A hover handler whose wheel steps change the seed wherever the pointer is.
HoverSeedAnywhere(s, e) ==
    IF ~s.enabled THEN s
    ELSE IF ~(0 <= e.mx /\ e.mx <= RegionWidth /\ 0 <= e.my /\ e.my <= 200)
    THEN [s EXCEPT !.hovered = NONE, !.hover_ease = NONE]
    ELSE LET seed == IF e.type = "WHEELUPMOUSE" THEN s.random_seed + 1
                     ELSE IF e.type = "WHEELDOWNMOUSE" THEN s.random_seed - 1
                     ELSE s.random_seed
         IN  [s EXCEPT !.hovered = check_gizmo(s, e.mx, e.my),
                       !.hover_ease = check_ease(s, e.mx, e.my), !.random_seed = seed]

\* EZSTAGGER_OT_hover.invoke
HoverInvoke(s, e) ==
    IF ~s.enabled THEN s
    ELSE IF ~(0 <= e.mx /\ e.mx <= RegionWidth /\ 0 <= e.my /\ e.my <= 200)
    THEN [s EXCEPT !.hovered = NONE, !.hover_ease = NONE]
    ELSE LET hovered == check_gizmo(s, e.mx, e.my)
             hover_ease == check_ease(s, e.mx, e.my)
             seed == IF hovered = "RANDOM" /\ e.type = "WHEELUPMOUSE" THEN s.random_seed + 1
                     ELSE IF hovered = "RANDOM" /\ e.type = "WHEELDOWNMOUSE" THEN s.random_seed - 1
                     ELSE s.random_seed
         IN  [s EXCEPT !.hovered = hovered, !.hover_ease = hover_ease, !.random_seed = seed]

Hover(e) ==
    /\ KeymapReached(e)
    /\ ngest < MaxGestures
    /\ SeedInRange(HoverInvoke(state, e).random_seed)
    /\ state' = HoverInvoke(state, e)
    /\ UNCHANGED <<kps, action, st, ez, ngest, nedits, last_invoke>>


\* -------------------------------------------------------------- stagger
\* REVERSE as a descending sort of its own (stable, so equal earliest times keep
\* their forward order) instead of the reversal of the forward list.
OrderGroupsDescending(mode, seed, groups_orig) ==
    IF mode = "REVERSE" THEN SortedBy(groups_orig,
                                [i \in 1..Len(groups_orig) |-> 0 - EarliestFrame(groups_orig[i])])
    ELSE IF mode = "RANDOM" THEN Shuffle(seed, groups_orig)
    ELSE groups_orig

\* invoke, lines 777-783: the order of the channels for the chosen mode.
OrderGroups(mode, seed, groups_orig) ==
    IF mode = "REVERSE" THEN Reverse(groups_orig)
    ELSE IF mode = "RANDOM" THEN Shuffle(seed, groups_orig)
    ELSE groups_orig

\* A reshuffle of the list in its current order.
ReshuffleCurrent(seed, groups_orig, groups) == Shuffle(seed, groups)

\* _reshuffle: a fresh generator on a copy of the original list.
_reshuffle(seed, groups_orig, groups) == Shuffle(seed, groups_orig)

\* self._last_delta or 0
OrZero(d) == IF d = <<>> \/ d = <<0>> THEN 0 ELSE d[1]

\* EZSTAGGER_OT_stagger.invoke with the operator properties order_mode and
\* random_seed, the pointer at mx, in an area of type `area`.
StaggerInvoke(order_mode, random_seed, mx, area) ==
    LET selected == _collect_selected_keyframes(kps, action)
        groups_orig == _determine_grouping(selected)
        running == area = "DOPESHEET_EDITOR" /\ selected # <<>> /\ groups_orig # <<>>
    IN  /\ st' = IF running
                 THEN [status |-> "ACTIVE", mode |-> order_mode, seed |-> random_seed,
                       groups_orig |-> groups_orig,
                       groups |-> OrderGroups(order_mode, random_seed, groups_orig),
                       init_time |-> RegionToViewX(mx),
                       last_delta |-> <<0>>, handler |-> TRUE, removes |-> 0]
                 ELSE st
        /\ last_invoke' = Invoked("anim.ez_stagger_modal",
                                  IF running THEN "RUNNING_MODAL" ELSE "CANCELLED", <<>>)
        /\ UNCHANGED <<kps, action, state, ez, ngest, nedits>>

\* round(t - self._init_time) for the pointer at mx
FrameDelta(mx, init_time) == Round(RSub(RegionToViewX(mx), init_time))

\* A cleanup that removes the draw handler and keeps the handle.
CleanupKeepsHandle(op) ==
    IF op.handler THEN [op EXCEPT !.removes = @ + 1] ELSE op

\* _cleanup: the feedback draw handler removed, if there is one.
_cleanup(op) ==
    IF op.handler THEN [op EXCEPT !.handler = FALSE, !.removes = @ + 1] ELSE op

\* modal, a wheel step of a RANDOM gesture: "self._seed += 1 (or -= 1);
\* self._reshuffle(); self._apply(self._last_delta or 0)", on the operator op
\* and the keyframes k.
Reseed(op, step, k, act) ==
    LET seed == op.seed + step
        groups == _reshuffle(seed, op.groups_orig, op.groups)
    IN  [op |-> [op EXCEPT !.seed = seed, !.groups = groups],
         kps |-> _apply(groups, OrZero(op.last_delta), k, act)]

\* A move that applies whatever the delta, without the comparison with the
\* last one.
MoveAlways(op, mx, k, act) ==
    LET delta == FrameDelta(mx, op.init_time)
    IN  [op |-> [op EXCEPT !.last_delta = <<delta>>],
         kps |-> _apply(op.groups, delta, k, act),
         applied |-> TRUE, redraw |-> TRUE]

\* modal, MOUSEMOVE with the pointer at mx: "delta = round(t - self._init_time);
\* if self._last_delta != delta: self._apply(delta); context.area.tag_redraw();
\* self._last_delta = delta".  applied and redraw tell whether _apply and
\* tag_redraw were called.
Move(op, mx, k, act) ==
    LET delta == FrameDelta(mx, op.init_time)
    IN  IF op.last_delta # <<delta>>
        THEN [op |-> [op EXCEPT !.last_delta = <<delta>>],
              kps |-> _apply(op.groups, delta, k, act),
              applied |-> TRUE, redraw |-> TRUE]
        ELSE [op |-> op, kps |-> k, applied |-> FALSE, redraw |-> FALSE]

\* A confirm that puts the keyframes back first, as the cancel branch does.
ConfirmRestoring(op, s, k, act) ==
    [op |-> [_cleanup(op) EXCEPT !.status = "COMMITTED"],
     state |-> [s EXCEPT !.random_seed = op.seed],
     kps |-> _apply(op.groups, 0, k, act)]

\* modal, "# Confirm": "self._cleanup(); state.random_seed = self._seed"; no
\* keyframe is read or written.
Confirm(op, s, k, act) ==
    [op |-> [_cleanup(op) EXCEPT !.status = "COMMITTED"],
     state |-> [s EXCEPT !.random_seed = op.seed],
     kps |-> k]

\* EZSTAGGER_OT_stagger.modal
StaggerModal(e) ==
    /\ st.status = "ACTIVE"
    /\ ngest' = IF StaggerModalResult(st.mode, e) \in {"FINISHED", "CANCELLED"}
                THEN ngest + 1 ELSE ngest
    /\ UNCHANGED <<action, ez, nedits, last_invoke>>
    /\ IF StaggerCancelEvent(e)
       THEN /\ st' = [_cleanup(st) EXCEPT !.status = "CANCELED"]
            /\ UNCHANGED state
            /\ kps' = _apply(st.groups, 0, kps, action)
       ELSE IF st.mode = "RANDOM" /\ e.type \in {"WHEELUPMOUSE", "WHEELDOWNMOUSE"}
       THEN LET r == Reseed(st, IF e.type = "WHEELUPMOUSE" THEN 1 ELSE -1, kps, action)
            IN  /\ SeedInRange(r.op.seed)
                /\ st' = r.op
                /\ kps' = r.kps
                /\ UNCHANGED state
       ELSE IF e.type = "MOUSEMOVE"
       THEN LET r == Move(st, e.mx, kps, action)
            IN  /\ Abs(FrameDelta(e.mx, st.init_time)) <= MaxDelta
                /\ st' = r.op
                /\ kps' = r.kps
                /\ UNCHANGED state
       ELSE IF StaggerConfirmEvent(e)
       THEN LET r == Confirm(st, state, kps, action)
            IN  st' = r.op /\ state' = r.state /\ kps' = r.kps
       ELSE UNCHANGED <<kps, st, state>>

\* ----------------------------------------------------------------- ease
\* EZSTAGGER_OT_ease.invoke
\* An invoke that does not store the starting value: _start_val keeps its
\* class default 1.0.
EaseInvokeKeepsDefault(ease_type) ==
    LET bounds == SelectSeq(state.ease_slider_bounds, LAMBDA b : b[1] = ease_type)
        data == _collect_selected_keyframes(kps, action)
        running == bounds # <<>> /\ data # <<>>
    IN  /\ ez' = IF running
                 THEN [status |-> "ACTIVE", ease_type |-> ease_type,
                       bounds |-> Tail(bounds[1]), data |-> data,
                       start_val |-> R(1), applied |-> FALSE]
                 ELSE ez
        /\ state' = IF running THEN [state EXCEPT !.dragging_ease = ease_type] ELSE state
        /\ last_invoke' = Invoked("anim.ez_ease_modal",
                                  IF running THEN "RUNNING_MODAL" ELSE "CANCELLED", <<>>)
        /\ UNCHANGED <<kps, action, st, ngest, nedits>>

\* An invoke that writes the starting value to the handles at once, as a
\* pointer move would.
EaseInvokeApplies(ease_type) ==
    LET bounds == SelectSeq(state.ease_slider_bounds, LAMBDA b : b[1] = ease_type)
        data == _collect_selected_keyframes(kps, action)
        running == bounds # <<>> /\ data # <<>>
        start_val == IF ease_type = "EASE_IN" THEN state.ease_in ELSE state.ease_out
    IN  /\ ez' = IF running
                 THEN [status |-> "ACTIVE", ease_type |-> ease_type,
                       bounds |-> Tail(bounds[1]), data |-> data,
                       start_val |-> start_val, applied |-> FALSE]
                 ELSE ez
        /\ state' = IF running THEN [state EXCEPT !.dragging_ease = ease_type] ELSE state
        /\ last_invoke' = Invoked("anim.ez_ease_modal",
                                  IF running THEN "RUNNING_MODAL" ELSE "CANCELLED", <<>>)
        /\ kps' = IF running
                  THEN _apply_ease(data, ease_type = "EASE_IN", start_val, kps, action)
                  ELSE kps
        /\ UNCHANGED <<action, st, ngest, nedits>>

EaseInvoke(ease_type) ==
    LET bounds == SelectSeq(state.ease_slider_bounds, LAMBDA b : b[1] = ease_type)
        data == _collect_selected_keyframes(kps, action)
        running == bounds # <<>> /\ data # <<>>
    IN  /\ ez' = IF running
                 THEN [status |-> "ACTIVE", ease_type |-> ease_type,
                       bounds |-> Tail(bounds[1]), data |-> data,
                       start_val |-> IF ease_type = "EASE_IN" THEN state.ease_in
                                     ELSE state.ease_out,
                       applied |-> FALSE]
                 ELSE ez
        /\ state' = IF running THEN [state EXCEPT !.dragging_ease = ease_type] ELSE state
        /\ last_invoke' = Invoked("anim.ez_ease_modal",
                                  IF running THEN "RUNNING_MODAL" ELSE "CANCELLED", <<>>)
        /\ UNCHANGED <<kps, action, st, ngest, nedits>>

\* max(0.0, min(1.0, (event.mouse_region_x - sx) / sw))
PointerFactor(mx, bounds) == Clamp01(Rat(mx - bounds[1], bounds[3]))

SetEase(s, ease_type, val) ==
    IF ease_type = "EASE_IN" THEN [s EXCEPT !.ease_in = val] ELSE [s EXCEPT !.ease_out = val]

\* A release that leaves the overlay's dragging flag as it is.
EaseReleaseKeepsFlag(s) == s

\* modal, LEFTMOUSE RELEASE: "state.dragging_ease = None".
EaseRelease(s) == [s EXCEPT !.dragging_ease = NONE]

\* EZSTAGGER_OT_ease.modal
EaseModal(e) ==
    /\ ez.status = "ACTIVE"
    /\ ngest' = IF EaseModalResult(e) \in {"FINISHED", "CANCELLED"} THEN ngest + 1 ELSE ngest
    /\ UNCHANGED <<action, st, nedits, last_invoke>>
    /\ IF e.type = "MOUSEMOVE"
       THEN LET val == PointerFactor(e.mx, ez.bounds)
            IN  /\ state' = SetEase(state, ez.ease_type, val)
                /\ ez' = [ez EXCEPT !.applied = TRUE]
                /\ kps' = _apply_ease(ez.data, ez.ease_type = "EASE_IN", val, kps, action)
       ELSE IF e.type = "LEFTMOUSE" /\ e.value = "RELEASE"
       THEN /\ state' = EaseRelease(state)
            /\ ez' = [ez EXCEPT !.status = "COMMITTED"]
            /\ UNCHANGED kps
       ELSE IF e.type \in {"RIGHTMOUSE", "ESC"}
       THEN /\ state' = SetEase([state EXCEPT !.dragging_ease = NONE],
                                ez.ease_type, ez.start_val)
            /\ ez' = [ez EXCEPT !.status = "CANCELED"]
            /\ kps' = _restore(ez.data, kps, action)
       ELSE UNCHANGED <<kps, state, ez>>

\* ---------------------------------------------------------------- click
\* EZSTAGGER_OT_click.invoke: a gizmo starts the stagger operator with the
\* overlay's seed, a slider starts the ease operator.
\* A call of one of the two modal operators through bpy.ops, with the
\* properties handed to it.
OpCall(op, order_mode, random_seed, ease_type) ==
    [op |-> op, order_mode |-> order_mode, random_seed |-> random_seed,
     ease_type |-> ease_type]

NoCall == OpCall(NONE, NONE, NONE, NONE)

\* A click handler that starts the stagger operator without handing it the
\* overlay's seed: the operator runs with its property default.
ClickInvokeDefaultSeed(s, e) ==
    IF ~s.enabled \/ ~s.has_selection THEN [result |-> "PASS_THROUGH", call |-> NoCall]
    ELSE LET mode == check_gizmo(s, e.mx, e.my)
             ease == check_ease(s, e.mx, e.my)
         IN  IF mode # NONE
             THEN [result |-> "FINISHED",
                   call |-> OpCall("anim.ez_stagger_modal", mode, DefaultSeed, NONE)]
             ELSE IF ease # NONE
             THEN [result |-> "FINISHED",
                   call |-> OpCall("anim.ez_ease_modal", NONE, NONE, ease)]
             ELSE [result |-> "PASS_THROUGH", call |-> NoCall]

\* EZSTAGGER_OT_click.invoke: its return value and the bpy.ops call it makes.
ClickInvoke(s, e) ==
    IF ~s.enabled \/ ~s.has_selection THEN [result |-> "PASS_THROUGH", call |-> NoCall]
    ELSE LET mode == check_gizmo(s, e.mx, e.my)
             ease == check_ease(s, e.mx, e.my)
         IN  IF mode # NONE
             THEN [result |-> "FINISHED",
                   call |-> OpCall("anim.ez_stagger_modal", mode, s.random_seed, NONE)]
             ELSE IF ease # NONE
             THEN [result |-> "FINISHED",
                   call |-> OpCall("anim.ez_ease_modal", NONE, NONE, ease)]
             ELSE [result |-> "PASS_THROUGH", call |-> NoCall]

Click(e) ==
    /\ KeymapReached(e)
    /\ PointerAt(e)
    /\ ngest < MaxGestures
    /\ LET call == ClickInvoke(state, e).call
       IN  IF call.op = "anim.ez_stagger_modal"
           THEN StaggerInvoke(call.order_mode, call.random_seed, e.mx, "DOPESHEET_EDITOR")
           ELSE IF call.op = "anim.ez_ease_modal" THEN EaseInvoke(call.ease_type)
           ELSE UNCHANGED vars

\* The keymap item Alt + LEFTMOUSE of register(): the stagger operator with
\* its property defaults.
AltClick(e) ==
    /\ KeymapReached(e)
    /\ PointerAt(e)
    /\ ngest < MaxGestures
    /\ StaggerInvoke("NORMAL", DefaultSeed, e.mx, "DOPESHEET_EDITOR")

\* The areas a registered operator can be called from besides the dope sheet
\* (operator search, a script): another editor, or no area at all.
OtherAreas == {NONE, "VIEW_3D", "GRAPH_EDITOR"}

\* The stagger operator called with its property defaults from an area that is
\* not the dope sheet, while no modal operator is running.
InvokeOutside(area) ==
    /\ st.status # "ACTIVE" /\ ez.status # "ACTIVE"
    /\ ngest < MaxGestures
    /\ StaggerInvoke("NORMAL", DefaultSeed, 40, area)

\* ----------------------------------------------------------- host edits
\* Another tool removes an object, or its animation data, or its action,
\* while a gesture that snapshotted one of its keyframes is running.
Snapshotted(obj) ==
    \/ st.status = "ACTIVE" /\ \E g \in Range(st.groups) : \E it \in Range(g) : it.obj_name = obj
    \/ ez.status = "ACTIVE" /\ \E it \in Range(ez.data) : it.obj_name = obj

HostUnlink(obj) ==
    /\ nedits < MaxEdits
    /\ Snapshotted(obj)
    /\ action[obj] # NONE
    /\ action' = [action EXCEPT ![obj] = NONE]
    /\ nedits' = nedits + 1
    /\ UNCHANGED <<kps, state, st, ez, ngest, last_invoke>>

\* ------------------------------------------------------- specification
Next ==
    \/ Redraw
    \/ \E e \in MoveEvents \cup WheelEvents : Hover(e)
    \/ \E e \in ClickEvents : Click(e)
    \/ \E e \in AltClickEvents : AltClick(e)
    \/ \E area \in OtherAreas : InvokeOutside(area)
    \/ \E e \in ModalEvents : StaggerModal(e)
    \/ \E e \in ModalEvents : EaseModal(e)
    \/ \E obj \in Range(Objects) : HostUnlink(obj)

Spec == Init /\ [][Next]_vars

\* The host gives an object of the running gesture another action (the action
\* selector of the editor, a script).
HostAssignAction(obj, a) ==
    /\ nedits < MaxEdits
    /\ Snapshotted(obj)
    /\ action[obj] # a
    /\ action' = [action EXCEPT ![obj] = a]
    /\ nedits' = nedits + 1
    /\ UNCHANGED <<kps, state, st, ez, ngest, last_invoke>>

\* The host clears the select flag of a keyframe while no gesture runs (a
\* click in the editor, a script) and before it redraws the editor.
HostDeselect(c, i) ==
    /\ st.status # "ACTIVE" /\ ez.status # "ACTIVE"
    /\ ngest < MaxGestures
    /\ nedits < MaxEdits
    /\ kps[c][i].sel
    /\ kps' = [kps EXCEPT ![c][i].sel = FALSE]
    /\ nedits' = nedits + 1
    /\ UNCHANGED <<action, state, st, ez, ngest, last_invoke>>

\* The handlers together with these two host edits.
NextHost ==
    \/ Next
    \/ \E obj \in Range(Objects) : \E a \in Actions : HostAssignAction(obj, a)
    \/ \E c \in Curves : \E i \in 1..Len(kps[c]) : HostDeselect(c, i)

\* SpecHost starts in the scenes where an object shares the other's action
\* or an unused action holds keyframes.
InitHost ==
    /\ Init
    /\ action["B"] = "ActA" \/ (kps[5] # <<>> /\ kps[2] # <<>>)

SpecHost == InitHost /\ [][NextHost]_vars

\* =========================================================== properties
\* The live keyframe a snapshot was captured from, found by its ghost identity.
Captured(it) ==
    LET c == CHOOSE c \in Curves : \E i \in 1..Len(kps[c]) : kps[c][i].kid = it.kid
    IN  kps[c][CHOOSE i \in 1..Len(kps[c]) : kps[c][i].kid = it.kid]

\* The snapshot still resolves: its object has an action with its curve, and the
\* curve has a keyframe at its index.
Resolvable(it) == _get_fcurve_and_keypoint(it, kps, action) # NoKey

\* The live keyframe a resolvable snapshot resolves to now.
Resolved(it) ==
    LET at == _get_fcurve_and_keypoint(it, kps, action)
    IN  kps[at.fc][at.i]

\* The delta of the last apply of the running stagger gesture.
LastDelta == OrZero(st.last_delta)

\* The offset of the channel at 1-based position g of the ordered list.
RankOffset(g) == (g - 1) * LastDelta

\* ----------------------------------------------------------------- C1
\* C1: during a stagger gesture, after the last apply (delta d_last), every
\* keyframe captured by a resolvable snapshot of the channel of rank r is at
\* original_time + r * d_last, whatever deltas were applied before.
C1_TimeFromOriginals ==
    st.status = "ACTIVE" =>
        \A g \in 1..Len(st.groups) : \A j \in 1..Len(st.groups[g]) :
            LET it == st.groups[g][j]
            IN  Resolvable(it) => Captured(it).co_x = it.frame + RankOffset(g)

\* ----------------------------------------------------------------- C2
\* C2: after a canceled stagger gesture every keyframe captured by a snapshot
\* whose object still has its action has its time and both handle times equal
\* to the snapshot's.
C2_CancelRestoresTimes ==
    st.status = "CANCELED" =>
        \A g \in 1..Len(st.groups) : \A j \in 1..Len(st.groups[g]) :
            LET it == st.groups[g][j]
                kp == Captured(it)
            IN  Resolvable(it) =>
                    /\ kp.co_x = it.frame
                    /\ kp.hl_x = it.hl_x
                    /\ kp.hr_x = it.hr_x

\* ----------------------------------------------------------------- C8
\* C8: after apply(delta) every keyframe captured by a resolvable snapshot of
\* the channel at rank r has time original + r * delta and handle times
\* original + r * delta, and its value, handle values and handle kinds are the
\* snapshot's.
C8_ApplySetsRankOffset ==
    st.status = "ACTIVE" =>
        \A g \in 1..Len(st.groups) : \A j \in 1..Len(st.groups[g]) :
            LET it == st.groups[g][j]
                kp == Captured(it)
            IN  Resolvable(it) =>
                    /\ kp.co_x = it.frame + RankOffset(g)
                    /\ kp.hl_x = RAdd(it.hl_x, R(RankOffset(g)))
                    /\ kp.hr_x = RAdd(it.hr_x, R(RankOffset(g)))
                    /\ kp.co_y = it.value
                    /\ kp.hl_y = it.hl_y /\ kp.hr_y = it.hr_y
                    /\ kp.hl_type = it.hl_type /\ kp.hr_type = it.hr_type

\* ----------------------------------------------------------------- C3
\* Both handles of the live keyframe kp have the time, value and kind the
\* snapshot it captured.
HandlesAsCaptured(kp, it) ==
    /\ kp.hl_x = it.hl_x /\ kp.hl_y = it.hl_y /\ kp.hl_type = it.hl_type
    /\ kp.hr_x = it.hr_x /\ kp.hr_y = it.hr_y /\ kp.hr_type = it.hr_type

In01(r) == RLe(R(0), r) /\ RLe(r, R(1))

\* C6: every ease factor lies in [0, 1]: the displayed factors, each
\* per-keyframe ratio of the live selection, and the factor of every pointer
\* position for the slider of the running ease gesture.
C6_FactorsClamped ==
    /\ In01(state.ease_in) /\ In01(state.ease_out)
    /\ \A side \in {"in", "out"} :
            LET vals == EaseVals(side, kps, action)
            IN  \A j \in 1..Len(vals) : In01(vals[j])
    /\ ez.status = "ACTIVE" =>
            \A mx \in MouseXs : In01(PointerFactor(mx, ez.bounds))

\* An ease-in drag with the pointer left of the slider (factor 0), on a
\* selection with a right handle that points the wrong way (ratio below 0).
C6_Witness ==
    /\ ez.status = "ACTIVE" /\ ez.applied /\ ez.ease_type = "EASE_IN"
    /\ state.ease_in = R(0)
    /\ LET raw == EaseRatios("out", kps, action)
       IN  \E j \in 1..Len(raw) : RLt(raw[j], R(0))

\* ----------------------------------------------------------------- C9
\* C9: after an ease pointer move with factor f, every snapshot that resolves
\* to a keyframe with a neighbour on the active side has that side's handle
\* time at keyframe_time - f * distance_to_previous (ease-in) or keyframe_time
\* + f * distance_to_next (ease-out), and that handle's value as captured.
C9_EaseMovePlacesHandle ==
    (ez.status = "ACTIVE" /\ ez.applied) =>
        \A j \in 1..Len(ez.data) :
            LET it == ez.data[j]
                at == _get_fcurve_and_keypoint(it, kps, action)
                ks == kps[at.fc]
                kp == ks[at.i]
            IN  Resolvable(it) =>
                    /\ (ez.ease_type = "EASE_IN" /\ at.i > 1) =>
                            /\ kp.hl_x = RSub(R(kp.co_x),
                                    RMul(state.ease_in, R(kp.co_x - ks[at.i - 1].co_x)))
                            /\ kp.hl_y = it.hl_y
                    /\ (ez.ease_type = "EASE_OUT" /\ at.i < Len(ks)) =>
                            /\ kp.hr_x = RAdd(R(kp.co_x),
                                    RMul(state.ease_out, R(ks[at.i + 1].co_x - kp.co_x)))
                            /\ kp.hr_y = it.hr_y

\* An ease-in drag at factor 3/4 on the keyframe at 4 whose previous keyframe
\* is at 0: the left handle is at 1.
C9_Witness ==
    /\ ez.status = "ACTIVE" /\ ez.applied /\ ez.ease_type = "EASE_IN"
    /\ state.ease_in = Rat(3, 4)
    /\ \E j \in 1..Len(ez.data) :
            /\ Resolvable(ez.data[j])
            /\ _get_fcurve_and_keypoint(ez.data[j], kps, action).i > 1
            /\ Resolved(ez.data[j]).co_x = 4
            /\ Resolved(ez.data[j]).hl_x = R(1)

\* ----------------------------------------------------------------- C4
\* C4: in a RANDOM stagger gesture the ordered channel list is the shuffle of
\* the forward-sorted list under the gesture's current seed, whether the seed
\* is the one the gesture began with or was reached by scroll steps.
C4_RandomOrderFromSeed ==
    (st.status = "ACTIVE" /\ st.mode = "RANDOM") =>
        /\ st.groups = Shuffle(st.seed, st.groups_orig)
        /\ Range(st.groups) = Range(st.groups_orig)

\* A RANDOM gesture on three channels whose seed was scrolled away from the
\* seed it began with, the order differing from the forward order.
C4_Witness ==
    /\ st.status = "ACTIVE" /\ st.mode = "RANDOM"
    /\ st.seed # state.random_seed
    /\ Len(st.groups) = 3
    /\ st.groups # st.groups_orig

\* ----------------------------------------------------------------- C5
\* C5: in a REVERSE stagger gesture the forward list is ascending by earliest
\* time and the channel at forward position i is at position N + 1 - i of the
\* ordered list.
C5_ReverseIsReversal ==
    (st.status = "ACTIVE" /\ st.mode = "REVERSE") =>
        LET n == Len(st.groups_orig)
        IN  /\ Len(st.groups) = n
            /\ \A i \in 1..n : st.groups[n + 1 - i] = st.groups_orig[i]
            /\ \A i, j \in 1..n :
                    i < j => EarliestFrame(st.groups_orig[i]) <= EarliestFrame(st.groups_orig[j])

\* A REVERSE gesture on three channels, the first two of the forward list with
\* the same earliest time, after a pointer move.
C5_Witness ==
    /\ st.status = "ACTIVE" /\ st.mode = "REVERSE"
    /\ Len(st.groups_orig) = 3
    /\ EarliestFrame(st.groups_orig[1]) = EarliestFrame(st.groups_orig[2])
    /\ st.groups[3] = st.groups_orig[1] /\ st.groups[2] = st.groups_orig[2]
    /\ LastDelta # 0

\* ----------------------------------------------------------------- C7
\* The corners of a slider's rectangle and the pointer grid.
ProbeXs(b) == MouseXs \cup {b[2], b[2] + b[4]}

ProbeYs(b) == MouseYs \cup {b[3], b[3] + b[5]}

\* C7: check_gizmo returns a mode only when the overlay's channel count is at
\* least 2, and with fewer channels there are no gizmos; with a selection of
\* exactly one channel both sliders have bounds and check_ease returns the id
\* of the slider that holds the point.
C7_GizmosNeedTwoChannels ==
    /\ \A mx \in MouseXs, my \in MouseYs :
            check_gizmo(state, mx, my) # NONE => state.num_groups >= 2
    /\ state.num_groups < 2 => state.gizmo_positions = <<>>
    /\ (state.has_selection /\ state.num_groups = 1) =>
            /\ {state.ease_slider_bounds[i][1] : i \in 1..Len(state.ease_slider_bounds)}
                    = {"EASE_IN", "EASE_OUT"}
            /\ \A i \in 1..Len(state.ease_slider_bounds) :
                    LET b == state.ease_slider_bounds[i]
                    IN  \A mx \in ProbeXs(b), my \in ProbeYs(b) :
                            (b[2] <= mx /\ mx <= b[2] + b[4] /\ b[3] <= my /\ my <= b[3] + b[5])
                                => check_ease(state, mx, my) = b[1]

\* A single selected channel drawn, the pointer hovering a slider and no gizmo.
C7_Witness ==
    /\ state.has_selection /\ state.num_groups = 1
    /\ state.hover_ease = "EASE_OUT" /\ state.hovered = NONE

\* ---------------------------------------------------------------- C10
\* C10: the stagger controller and the ease controller are never both ACTIVE.
C10_OneControllerActive == ~(st.status = "ACTIVE" /\ ez.status = "ACTIVE")

\* An ease drag in progress on a selection of several channels, whose gizmos
\* are on screen, the stagger controller at rest.
C10_Witness ==
    /\ ez.status = "ACTIVE" /\ ez.applied
    /\ state.num_groups >= 2 /\ state.gizmo_positions # <<>>
    /\ st.status = "IDLE"

\* ---------------------------------------------------------------- C11
\* What a successful begin leaves: a running operator with its feedback draw
\* handler, no delta applied yet, the channels of the current selection, and
\* the keyframes untouched.
FreshGesture ==
    /\ st'.status = "ACTIVE" /\ st'.handler /\ st'.last_delta = <<0>>
    /\ st'.groups_orig = _determine_grouping(_collect_selected_keyframes(kps, action))
    /\ st'.groups_orig # <<>>
    /\ kps' = kps

\* The status the modal handler leaves for an event.
StatusAfter(e) ==
    IF e.type \in {"ESC", "RIGHTMOUSE"} THEN "CANCELED"
    ELSE IF e.type \in {"LEFTMOUSE", "RET", "NUMPAD_ENTER"} /\ e.value = "RELEASE"
    THEN "COMMITTED"
    ELSE "ACTIVE"

\* C11: a stagger gesture becomes ACTIVE only through a successful begin;
\* while ACTIVE, a release of a confirm key commits it, ESC or the right
\* button cancels it and every other event keeps it ACTIVE; a finished
\* gesture keeps its status, and only the begin of a new gesture replaces it.
C11_GestureStateMachine ==
    [][ /\ (st.status # "ACTIVE" /\ st'.status = "ACTIVE") => FreshGesture
        /\ st.status = "IDLE" => st'.status \in {"IDLE", "ACTIVE"}
        /\ (st.status = "ACTIVE" /\ st'.status # "ACTIVE") =>
                \E e \in ModalEvents : StaggerModal(e) /\ st'.status = StatusAfter(e)
                                          /\ StatusAfter(e) \in {"COMMITTED", "CANCELED"}
        /\ \A e \in ModalEvents : st'.status # StatusAfter(e) => ~StaggerModal(e)
        /\ st.status \in {"COMMITTED", "CANCELED"} =>
                st'.status = st.status \/ FreshGesture
      ]_vars

\* A REVERSE gesture begun from a gizmo, dragged two frames and committed.
C11_Witness ==
    st.status = "COMMITTED" /\ st.last_delta = <<2>> /\ st.mode = "REVERSE" /\ ~st.handler

\* ---------------------------------------------------------------- C12
\* The invoke reported a warning.
Warned(inv) == \E i \in 1..Len(inv.reports) : inv.reports[i][1] = "WARNING"

\* A begin with nothing selected leaves everything but its own return value as
\* it was: keyframes, both operators (status and draw handler), overlay state.
NoSelectionBeginInert ==
    (_collect_selected_keyframes(kps, action) = <<>> /\ last_invoke' # last_invoke) =>
        /\ last_invoke'.result = "CANCELLED"
        /\ kps' = kps /\ st' = st /\ ez' = ez /\ state' = state

\* C12: with no keyframe selected, a begin returns canceled with a warning
\* report and changes no keyframe, no operator and no overlay state.
C12_NoSelectionBeginWarns ==
    [][ /\ NoSelectionBeginInert
        /\ (_collect_selected_keyframes(kps, action) = <<>> /\ last_invoke' # last_invoke) =>
                Warned(last_invoke')
      ]_vars

\* ---------------------------------------------------------------- C13
\* Where a snapshot resolves before the step, or NoKey.
ResolvesTo(it) == _get_fcurve_and_keypoint(it, kps, action)

\* The curves no snapshot of the list resolves into keep their keyframes.
OthersUntouched(items) ==
    \A c \in Curves :
        (\A j \in 1..Len(items) : ResolvesTo(items[j]) = NoKey \/ ResolvesTo(items[j]).fc # c)
            => kps'[c] = kps[c]

\* modal: the event makes it call _apply, and with which delta.
StaggerApplies(e) ==
    \/ StaggerCancelEvent(e)
    \/ st.mode = "RANDOM" /\ e.type \in {"WHEELUPMOUSE", "WHEELDOWNMOUSE"}
    \/ e.type = "MOUSEMOVE" /\ st.last_delta # <<FrameDelta(e.mx, st.init_time)>>

AppliedDelta(e) ==
    IF StaggerCancelEvent(e) THEN 0
    ELSE IF e.type = "MOUSEMOVE" THEN FrameDelta(e.mx, st.init_time)
    ELSE OrZero(st.last_delta)

\* What the operator's fields tell of the event a step handled: the status,
\* the last delta of a move, the seed of a wheel step.
StaggerStepFits(e) ==
    /\ st'.status = StatusAfter(e)
    /\ e.type = "MOUSEMOVE" => st'.last_delta = <<FrameDelta(e.mx, st.init_time)>>
    /\ e.type = "WHEELUPMOUSE" => st'.seed = st.seed + 1
    /\ e.type = "WHEELDOWNMOUSE" => st'.seed = st.seed - 1

\* An apply of the stagger gesture with a snapshot that does not resolve: the
\* curves of the unresolved snapshots are untouched, and the keyframe every
\* other snapshot resolves to is in its curve at original + rank * delta.
StaggerApplySkips(e) ==
    LET groups == st'.groups
        items == ConcatAll(groups)
        delta == AppliedDelta(e)
    IN  (/\ st.status = "ACTIVE"
         /\ StaggerApplies(e)
         /\ StaggerStepFits(e)
         /\ \E j \in 1..Len(items) : ResolvesTo(items[j]) = NoKey
         /\ StaggerModal(e)) =>
            /\ OthersUntouched(items)
            /\ \A g \in 1..Len(groups) : \A j \in 1..Len(groups[g]) :
                    LET it == groups[g][j]
                        at == ResolvesTo(it)
                        off == (g - 1) * delta
                    IN  at # NoKey =>
                            \E i \in 1..Len(kps'[at.fc]) :
                                LET kp == kps'[at.fc][i]
                                IN  /\ kp.kid = kps[at.fc][at.i].kid
                                    /\ kp.co_x = it.frame + off
                                    /\ kp.hl_x = RAdd(it.hl_x, R(off))
                                    /\ kp.hr_x = RAdd(it.hr_x, R(off))
            /\ ~StaggerCancelEvent(e) => st'.status = "ACTIVE"

\* The same for the ease gesture: a pointer move frees both handles of every
\* keyframe a snapshot resolves to and leaves the gesture ACTIVE, a cancel
\* gives them the handles captured; unresolved snapshots are passed over.
EaseApplySkips(e) ==
    (/\ ez.status = "ACTIVE"
     /\ \E j \in 1..Len(ez.data) : ResolvesTo(ez.data[j]) = NoKey
     /\ (e.type = "MOUSEMOVE" \/ e.type \in {"RIGHTMOUSE", "ESC"})
     /\ EaseModal(e)) =>
        /\ OthersUntouched(ez.data)
        /\ \A j \in 1..Len(ez.data) :
                LET it == ez.data[j]
                    at == ResolvesTo(it)
                IN  at # NoKey =>
                        \E i \in 1..Len(kps'[at.fc]) :
                            LET kp == kps'[at.fc][i]
                            IN  /\ kp.kid = kps[at.fc][at.i].kid
                                /\ IF e.type = "MOUSEMOVE"
                                   THEN kp.hl_type = "FREE" /\ kp.hr_type = "FREE"
                                   ELSE HandlesAsCaptured(kp, it)
        /\ e.type = "MOUSEMOVE" => ez'.status = "ACTIVE"

\* C13: in an apply with a snapshot that no longer resolves, that snapshot is
\* skipped, every snapshot that resolves is still written with its rank
\* offset, and the gesture stays ACTIVE; likewise ease apply and ease restore.
C13_UnresolvedSkipped ==
    [][ (\E o \in DOMAIN action : action[o] = NONE) =>
            \A e \in ModalEvents : StaggerApplySkips(e) /\ EaseApplySkips(e) ]_vars

\* Object A lost its action at delta 1 and the drag went on to delta 2: its
\* keyframes stayed where delta 1 put them, a later channel is at delta 2.
C13_Witness ==
    /\ st.status = "ACTIVE" /\ LastDelta = 2
    /\ \E g \in 2..Len(st.groups) : \E h \in 3..Len(st.groups) :
            /\ g < h
            /\ \E j \in 1..Len(st.groups[g]) :
                    /\ ~Resolvable(st.groups[g][j])
                    /\ Captured(st.groups[g][j]).co_x = st.groups[g][j].frame + (g - 1)
            /\ \E j \in 1..Len(st.groups[h]) :
                    /\ Resolvable(st.groups[h][j])
                    /\ Captured(st.groups[h][j]).co_x = st.groups[h][j].frame + RankOffset(h)

\* ---------------------------------------------------------------- C14
\* C14: the step that finishes a stagger gesture, by commit or by cancel,
\* removes the feedback draw handler and stores the gesture's seed in the
\* overlay state.
C14_FinalizePersistsSeed ==
    [][ (st.status = "ACTIVE" /\ st'.status \in {"COMMITTED", "CANCELED"}) =>
            ~st'.handler /\ state'.random_seed = st.seed ]_vars

\* ---------------------------------------------------------------- C15
\* n wheel steps in one direction from w = [op, kps].
RECURSIVE Scrolled(_, _, _)
Scrolled(w, step, n) ==
    IF n = 0 THEN w
    ELSE LET r == Reseed(w.op, step, w.kps, action)
         IN  Scrolled(r, step, n - 1)

\* Which keyframe is at which time, curve by curve.
Positions(k) == [c \in Curves |-> {<<k[c][i].kid, k[c][i].co_x>> : i \in 1..Len(k[c])}]

\* C15: from any state of an ACTIVE RANDOM gesture, n wheel steps up followed
\* by n wheel steps down bring back the seed and the channel order, and leave
\* every keyframe at the time it had before the scrolling.
C15_ScrollRoundTrip ==
    (st.status = "ACTIVE" /\ st.mode = "RANDOM") =>
        \A n \in 1..MaxScroll :
            LET w == Scrolled(Scrolled([op |-> st, kps |-> kps], 1, n), -1, n)
            IN  /\ w.op.seed = st.seed
                /\ w.op.groups = st.groups
                /\ Positions(w.kps) = Positions(kps)

\* ---------------------------------------------------------------- C16
\* C16: the step that commits a stagger gesture changes no keyframe: every
\* keyframe stays where the last apply put it, none goes back to its original.
C16_CommitWritesNothing ==
    [][ (st.status = "ACTIVE" /\ st'.status = "COMMITTED") => kps' = kps ]_vars

\* A committed gesture whose last delta was not 0: a keyframe of a channel of
\* rank 1 or more is away from its original time.
C16_Witness ==
    /\ st.status = "COMMITTED" /\ LastDelta # 0
    /\ \E g \in 2..Len(st.groups) : \E j \in 1..Len(st.groups[g]) :
            /\ Captured(st.groups[g][j]).co_x = st.groups[g][j].frame + RankOffset(g)
            /\ Captured(st.groups[g][j]).co_x # st.groups[g][j].frame

\* ---------------------------------------------------------------- C17
\* A begin outside the dope sheet returns canceled and leaves keyframes, both
\* operators (status, draw handler) and the overlay state as they were.
OutsideBeginInert ==
    \A area \in OtherAreas :
        InvokeOutside(area) =>
            /\ last_invoke'.result = "CANCELLED"
            /\ kps' = kps /\ st' = st /\ ez' = ez /\ state' = state

\* C17: a stagger begin from an area that is not the dope sheet never starts
\* the gesture: it reports a warning, returns canceled and changes nothing.
C17_OutsideBeginWarns ==
    [][ /\ OutsideBeginInert
        /\ \A area \in OtherAreas : InvokeOutside(area) => Warned(last_invoke')
      ]_vars

\* ---------------------------------------------------------------- C18
\* C18: in an ACTIVE stagger gesture a pointer move whose rounded frame delta
\* is the last applied delta calls neither _apply nor tag_redraw and leaves
\* the keyframes and the operator as they are; right after the begin the last
\* applied delta is 0, so a first move with delta 0 writes nothing.
C18_SameDeltaMoveIsInert ==
    st.status = "ACTIVE" =>
        \A e \in DragEvents :
            FrameDelta(e.mx, st.init_time) = LastDelta =>
                LET r == Move(st, e.mx, kps, action)
                IN  /\ ~r.applied /\ ~r.redraw
                    /\ r.kps = kps /\ r.op = st

\* A gesture right after its begin, the pointer still within half a frame of
\* where it began.
C18_Witness ==
    /\ st.status = "ACTIVE" /\ st.last_delta = <<0>>
    /\ \E e \in DragEvents : /\ FrameDelta(e.mx, st.init_time) = 0
                               /\ RegionToViewX(e.mx) # st.init_time

\* ---------------------------------------------------------------- C19
\* The earlier alt-drag operator (src/blender_addons): _KeyItem's two keys.
channel_key_per_fcurve(it) == <<it.obj_name, it.bone_name, it.data_path, it.array_index>>

channel_key_per_owner(it) == <<it.obj_name, it.bone_name, NONE, NONE>>

\* _prepare_groups, "# Decide grouping mode": header_selected[i] is
\* it.fcurve.select of item i.
group_per_fcurve(auto_grouping, invert_grouping, header_selected) ==
    IF auto_grouping
    THEN LET any_channel_header_selected ==
                \E i \in 1..Len(header_selected) : header_selected[i]
         IN  IF invert_grouping THEN ~any_channel_header_selected
             ELSE any_channel_header_selected
    ELSE ~invert_grouping

\* _prepare_groups, "# Group items": the dict group_items as the list of its
\* values in insertion order.
_prepare_groups(items, auto_grouping, invert_grouping, header_selected) ==
    LET per_fcurve == group_per_fcurve(auto_grouping, invert_grouping, header_selected)
        chan_key == [i \in 1..Len(items) |->
                        IF per_fcurve THEN channel_key_per_fcurve(items[i])
                        ELSE channel_key_per_owner(items[i])]
        keys == FirstKeys(chan_key)
    IN  [k \in 1..Len(keys) |->
            SelectSeq(items, LAMBDA it :
                (IF per_fcurve THEN channel_key_per_fcurve(it)
                 ELSE channel_key_per_owner(it)) = keys[k])]

\* The channels of a grouping as sets of snapshots, and the channels that
\* grouping the items by the given keys makes.
Channels(groups) == {Range(groups[g]) : g \in 1..Len(groups)}

ChannelsBy(items, item_keys) ==
    {{items[i] : i \in {j \in 1..Len(items) : item_keys[j] = k}} : k \in Range(item_keys)}

FineChannels(items) == ChannelsBy(items, [i \in 1..Len(items) |-> ChannelKey(items[i])])

CoarseChannels(items) == ChannelsBy(items, [i \in 1..Len(items) |-> OwnerKey(items[i])])

\* The curve a snapshot was captured from.
CurveOf(it) == CHOOSE c \in Curves : \E i \in 1..Len(kps[c]) : kps[c][i].kid = it.kid

\* The decision as the rule states it.
FineByRule(auto, invert, any_header) ==
    IF auto THEN any_header # invert ELSE ~invert

FineCount ==
    LET selected == _collect_selected_keyframes(kps, action)
    IN  Cardinality({ChannelKey(selected[i]) : i \in 1..Len(selected)})

\* C20: the channel count a redraw leaves in the overlay state is the number
\* of distinct fine grouping keys among the selected keyframes.
C20_CountIsFineCount ==
    [][ Redraw => state'.num_groups = FineCount ]_vars

\* ---------------------------------------------------------------- C21
\* The keyframe at position at of its curve has no neighbour on the side the
\* ease gesture works on: it is the first for ease-in, the last for ease-out.
NoNeighbourOnActiveSide(at) ==
    IF ez.ease_type = "EASE_IN" THEN at.i = 1 ELSE at.i = Len(kps[at.fc])

\* C21: an ease pointer move leaves every snapshotted keyframe without a
\* neighbour on the active side as it was: handle times, handle values and
\* both handle kinds.
C21_NoNeighbourUntouched ==
    [][ \A e \in DragEvents :
            (ez.status = "ACTIVE" /\ EaseModal(e)) =>
                \A j \in 1..Len(ez.data) :
                    LET at == ResolvesTo(ez.data[j])
                    IN  (at # NoKey /\ NoNeighbourOnActiveSide(at)) =>
                            kps[at.fc][at.i] \in Range(kps'[at.fc])
      ]_vars

\* ---------------------------------------------------------------- C22
\* The seed step of a wheel event with the pointer on the RANDOM gizmo.
SeedStep(e) ==
    IF check_gizmo(state, e.mx, e.my) # "RANDOM" THEN 0
    ELSE IF e.type = "WHEELUPMOUSE" THEN 1
    ELSE IF e.type = "WHEELDOWNMOUSE" THEN -1
    ELSE 0

\* C22: a hover or wheel event the overlay handles changes no keyframe and
\* starts no gesture; it moves the stored seed by +1 (wheel up) or -1 (wheel
\* down) when the pointer is on the RANDOM gizmo and leaves it otherwise.
C22_HoverOnlyMovesSeed ==
    [][ \A e \in MoveEvents \cup WheelEvents :
            Hover(e) =>
                /\ kps' = kps /\ st' = st /\ ez' = ez /\ last_invoke' = last_invoke
                /\ state'.dragging_ease = state.dragging_ease
                /\ state'.random_seed = state.random_seed + SeedStep(e)
      ]_vars

\* The seed scrolled up by one on the RANDOM gizmo, no gesture begun.
C22_Witness ==
    /\ st.status = "IDLE" /\ ez.status = "IDLE"
    /\ state.hovered = "RANDOM"
    /\ state.random_seed = DefaultSeed + 1

\* ---------------------------------------------------------------- C23
\* The gizmos within 10 pixels of the click and the sliders under it, among
\* those the overlay last drew.
GizmoHit(e) ==
    {g[3] : g \in {h \in Range(state.gizmo_positions) :
                    (e.mx - h[1]) * (e.mx - h[1]) + (e.my - h[2]) * (e.my - h[2]) <= 100}}

SliderHit(e) ==
    {b[1] : b \in {c \in Range(state.ease_slider_bounds) :
                    /\ c[2] <= e.mx /\ e.mx <= c[2] + c[4]
                    /\ c[3] <= e.my /\ e.my <= c[3] + c[5]}}

\* C23: with no gesture active, a click on a gizmo starts the stagger
\* operator with the gizmo's mode and the seed stored in the overlay state, a
\* click on a slider (and on no gizmo) starts the ease operator for the
\* slider's side, and a click on neither makes no call and returns
\* PASS_THROUGH.
C23_ClickStartsController ==
    [][ \A e \in ClickEvents :
            LET c == ClickInvoke(state, e)
                gizmo == GizmoHit(e)
                slider == SliderHit(e)
            IN  /\ (gizmo = {} /\ slider = {}) =>
                        c.result = "PASS_THROUGH" /\ c.call = NoCall
                /\ (Click(e) /\ gizmo # {}) =>
                        /\ last_invoke'.op = "anim.ez_stagger_modal"
                        /\ c.result = "FINISHED"
                        /\ ez' = ez
                        /\ last_invoke'.result = "RUNNING_MODAL" =>
                                /\ st'.status = "ACTIVE"
                                /\ st'.mode \in gizmo
                                /\ st'.seed = state.random_seed
                /\ (Click(e) /\ gizmo = {} /\ slider # {}) =>
                        /\ last_invoke'.op = "anim.ez_ease_modal"
                        /\ c.result = "FINISHED"
                        /\ st' = st
                        /\ last_invoke'.result = "RUNNING_MODAL" =>
                                /\ ez'.status = "ACTIVE"
                                /\ ez'.ease_type \in slider
      ]_vars

\* A REVERSE gesture running with a seed that was scrolled away from the
\* default before the click.
C23_Witness ==
    /\ st.status = "ACTIVE" /\ st.mode = "REVERSE"
    /\ st.seed = state.random_seed /\ st.seed # DefaultSeed
    /\ last_invoke.op = "anim.ez_stagger_modal"

\* ---------------------------------------------------------------- C24
\* The earlier operator's selection-order policy (src/blender_addons).
MaxActivations == 3

Unranked == 1000000000

\* _on_active_object_change: the active object's name moves to the end of
\* SELECTION_HISTORY; no active object leaves the history as it is.
_on_active_object_change(history, name) ==
    IF name = NONE THEN history
    ELSE Append(SelectSeq(history, LAMBDA n : n # name), name)

\* SELECTION_HISTORY after the objects of `activations` became active in turn.
RECURSIVE SelectionHistory(_)
SelectionHistory(activations) ==
    IF activations = <<>> THEN <<>>
    ELSE _on_active_object_change(
            SelectionHistory(SubSeq(activations, 1, Len(activations) - 1)),
            activations[Len(activations)])

FirstIndex(seq, x) == CHOOSE i \in 1..Len(seq) : seq[i] = x /\ \A j \in 1..(i - 1) : seq[j] # x

\* _build_selection_order_map: an object's index in the history, or, with no
\* history, in context.selected_objects.
_build_selection_order_map(history, selected_objects) ==
    LET mapping == [o \in Range(history) |-> FirstIndex(history, o) - 1]
    IN  IF DOMAIN mapping = {}
        THEN [o \in Range(selected_objects) |-> FirstIndex(selected_objects, o) - 1]
        ELSE mapping

\* _build_outliner_order_map: one collection holding the objects in order.
_build_outliner_order_map == [o \in Range(Objects) |-> FirstIndex(Objects, o) - 1]

\* Python's order of the names and data paths of the scenes, as ranks.
StrRank(str) == FirstIndex(<<"", "A", "B", "b1", "b2">>, str)

PathRank(path) ==
    FirstIndex(<< <<"location">>, BonePath("b1", ".location"), BonePath("b2", ".location") >>,
               path)

\* dict.get(obj, 10**9)
RankOr(mapping, obj) == IF obj \in DOMAIN mapping THEN mapping[obj] ELSE Unranked

\* group_sort_key of a channel, from the channel's first item.
group_sort_key(items, sel_rank, outline_rank) ==
    LET ref == items[1]
    IN  << RankOr(sel_rank, ref.obj_name),
           RankOr(outline_rank, ref.obj_name),
           StrRank(ref.obj_name),
           StrRank(BoneOrEmpty(ref)),
           PathRank(ref.data_path),
           ref.array_index >>

\* Python's order of two tuples of numbers of the same length.
LexLess(a, b) ==
    \E i \in 1..Len(a) : a[i] < b[i] /\ \A j \in 1..(i - 1) : a[j] = b[j]

\* sorted(seq, key): stable.
SortedByKey(seq, key) ==
    LET n == Len(seq)
        pos(i) == 1 + Cardinality({j \in 1..n :
                        \/ LexLess(key[j], key[i])
                        \/ key[j] = key[i] /\ j < i})
    IN  [p \in 1..n |-> seq[CHOOSE i \in 1..n : pos(i) = p]]

\* _prepare_groups, "# Default: selection order of objects": groups_sorted.
groups_sorted(group_items, history, selected_objects) ==
    LET sel_rank == _build_selection_order_map(history, selected_objects)
    IN  SortedByKey(group_items,
                    [g \in 1..Len(group_items) |->
                        group_sort_key(group_items[g], sel_rank, _build_outliner_order_map)])

\* The sequences of at most MaxActivations activations, and the orders
\* context.selected_objects can have.
RECURSIVE SeqsUpTo(_, _)
SeqsUpTo(S, n) ==
    IF n = 0 THEN {<<>>}
    ELSE LET shorter == SeqsUpTo(S, n - 1)
         IN  shorter \cup {Append(q, x) : q \in shorter, x \in S}

Activations == SeqsUpTo(Range(Objects), MaxActivations)

SelectedObjects == {q \in SeqsUpTo(Range(Objects), Len(Objects)) :
                        \A i, j \in 1..Len(q) : q[i] = q[j] => i = j}

\* How many other objects became active after the object last did; an object
\* that never became active ranks behind all that did.
RecencyRank(activations, obj) ==
    IF obj \notin Range(activations) THEN Unranked
    ELSE LET last == CHOOSE i \in 1..Len(activations) :
                        activations[i] = obj /\ \A j \in (i + 1)..Len(activations) : activations[j] # obj
         IN  Cardinality({activations[j] : j \in (last + 1)..Len(activations)})

\* The key of a channel as the policy is stated, most recently active first.
RecencyKey(items, activations) ==
    LET ref == items[1]
    IN  << RecencyRank(activations, ref.obj_name),
           RankOr(_build_outliner_order_map, ref.obj_name),
           StrRank(ref.obj_name),
           StrRank(BoneOrEmpty(ref)),
           PathRank(ref.data_path),
           ref.array_index >>

\* The channels of the gesture's selection as the earlier operator groups
\* them, one per curve or one per owner.
LegacyGroupings ==
    LET items == ConcatAll(st.groups_orig)
        none == [i \in 1..Len(items) |-> FALSE]
    IN  {_prepare_groups(items, FALSE, inv, none) : inv \in BOOLEAN}

\* C24: under the selection-order policy, with some object activated before,
\* the channels come out ordered by the recency of their owner's activation,
\* most recent first, then by outliner order, owner name, bone name, data
\* path and array index.
C24_MostRecentFirst ==
    st.status = "ACTIVE" =>
        \A activations \in Activations \ {<<>>} : \A sel \in SelectedObjects :
            \A group_items \in LegacyGroupings :
                LET sorted == groups_sorted(group_items, SelectionHistory(activations), sel)
                IN  \A g \in 1..(Len(sorted) - 1) :
                        ~LexLess(RecencyKey(sorted[g + 1], activations),
                                 RecencyKey(sorted[g], activations))

\* ---------------------------------------------------------------- C25
\* The write loops a handler of the running gesture can make from this state:
\* a stagger apply (move, reseed, cancel) with each delta, an ease apply with
\* a factor, an ease restore.
WriteLoops ==
    (IF st.status = "ACTIVE"
     THEN {[kind |-> "stagger", work |-> StaggerWork(st.groups, d)] :
                d \in (0 - MaxDelta)..MaxDelta}
     ELSE {})
    \cup
    (IF ez.status = "ACTIVE"
     THEN {[kind |-> "ease",
            work |-> [j \in 1..Len(ez.data) |->
                        [it |-> ez.data[j], is_in |-> ez.ease_type = "EASE_IN", factor |-> f]]] :
                f \in {R(0), Rat(1, 2), R(1)}}
          \cup {[kind |-> "restore", work |-> [j \in 1..Len(ez.data) |-> [it |-> ez.data[j]]]]}
     ELSE {})

\* The curves holding a keyframe that a snapshot of the work resolves to.
TouchedCurves(work) ==
    {c \in Curves : \E j \in 1..Len(work) :
        ResolvesTo(work[j].it) # NoKey /\ ResolvesTo(work[j].it).fc = c}

TimeSorted(ks) == \A i \in 1..(Len(ks) - 1) : ks[i].co_x <= ks[i + 1].co_x

\* C25: an apply asks exactly once for the recalculation of every curve it
\* wrote a keyframe of, and of no other, however many keyframes of the curve
\* it wrote; a recalculation that raises is swallowed and the other written
\* curves are still recalculated.
C25_UpdateOncePerTouchedCurve ==
    \A loop \in WriteLoops :
        LET w == WriteAll(loop.kind, loop.work, 1, [kps |-> kps, fcs |-> {}], action)
            touched == TouchedCurves(loop.work)
        IN  \A failing \in SUBSET Curves :
                LET r == UpdateLoop(w, failing)
                IN  /\ ~r.raised
                    /\ \A c \in Curves : r.requests[c] = IF c \in touched THEN 1 ELSE 0
                    /\ \A c \in touched \ failing :
                            TimeSorted(r.kps[c]) /\ Range(r.kps[c]) = Range(w.kps[c])
                    /\ \A c \in Curves \ (touched \ failing) : r.kps[c] = w.kps[c]

\* An ease gesture that has written two keyframes of one curve.
C25_Witness ==
    /\ ez.status = "ACTIVE" /\ ez.applied
    /\ \E i, j \in 1..Len(ez.data) :
            /\ i < j
            /\ ResolvesTo(ez.data[i]) # NoKey /\ ResolvesTo(ez.data[j]) # NoKey
            /\ ResolvesTo(ez.data[i]).fc = ResolvesTo(ez.data[j]).fc

\* ---------------------------------------------------------------- C26
\* The snapshots the running gesture holds.
ActiveSnapshots ==
    (IF st.status = "ACTIVE" THEN Range(ConcatAll(st.groups)) ELSE {})
    \cup (IF ez.status = "ACTIVE" THEN Range(ez.data) ELSE {})

\* C26 as stated: a snapshot whose object now has another action than the one
\* the snapshot names resolves to nothing.
C26_ReplacedActionIsInert ==
    \A it \in ActiveSnapshots :
        action[it.obj_name] # it.action_name => ResolvesTo(it) = NoKey

\* C26, amended: a snapshot resolves by object name, data path, array index
\* and keyframe index within the action the object has now, whatever that
\* action's name: to the keyframe at its index in a curve of that action
\* with its path and array index, and to nothing if the action has no such
\* curve with that many keyframes.
C26_ResolveIgnoresActionName ==
    \A it \in ActiveSnapshots :
        LET fits == {c \in Curves :
                        /\ CurveInfo[c].action = action[it.obj_name]
                        /\ CurveInfo[c].data_path = it.data_path
                        /\ CurveInfo[c].array_index = it.array_index
                        /\ it.kp_index < Len(kps[c])}
        IN  IF fits = {} THEN ResolvesTo(it) = NoKey
            ELSE ResolvesTo(it) # NoKey
                 /\ ResolvesTo(it).fc \in fits /\ ResolvesTo(it).i = it.kp_index + 1

\* A running stagger gesture one of whose objects was given another action:
\* the snapshot resolves to a keyframe of that action, not to the keyframe it
\* was captured from.
C26_Witness ==
    /\ st.status = "ACTIVE"
    /\ \E it \in ActiveSnapshots :
            /\ action[it.obj_name] \notin {NONE, it.action_name}
            /\ ResolvesTo(it) # NoKey
            /\ kps[ResolvesTo(it).fc][ResolvesTo(it).i].kid # it.kid

\* ---------------------------------------------------------------- C27
\* The overlay state holds what a redraw from the present selection leaves.
BoundsFresh ==
    LET drawn == draw_widgets(state, kps, action)
    IN  /\ state.has_selection = drawn.has_selection
        /\ state.num_groups = drawn.num_groups
        /\ state.gizmo_positions = drawn.gizmo_positions
        /\ state.ease_slider_bounds = drawn.ease_slider_bounds

InRegion(e) == 0 <= e.mx /\ e.mx <= RegionWidth /\ 0 <= e.my /\ e.my <= 200

\* C27: a hover or click event that hit-tests finds in the overlay state the
\* bounds a redraw from the present selection computes.
C27_HitTestsUseFreshBounds ==
    [][ /\ \A e \in MoveEvents \cup WheelEvents :
                (Hover(e) /\ state.enabled /\ InRegion(e)) => BoundsFresh
        /\ \A e \in ClickEvents :
                (Click(e) /\ state.enabled /\ state.has_selection) => BoundsFresh
      ]_vars

\* ---------------------------------------------------------------- C28
\* The value the overlay shows for a side, and for the other side.
ShownEase(s, side) == IF side = "EASE_IN" THEN s.ease_in ELSE s.ease_out

OtherSide(side) == IF side = "EASE_IN" THEN "EASE_OUT" ELSE "EASE_IN"

\* C28: the value shown for the dragged side when an ease gesture begins is
\* kept through the gesture and is the value shown after a cancel; no step of
\* the gesture, the cancel included, changes the value shown for the other
\* side.
C28_EaseCancelRestoresShownValue ==
    [][ /\ (ez.status # "ACTIVE" /\ ez'.status = "ACTIVE") =>
                /\ ez'.start_val = ShownEase(state, ez'.ease_type)
                /\ ShownEase(state', "EASE_IN") = ShownEase(state, "EASE_IN")
                /\ ShownEase(state', "EASE_OUT") = ShownEase(state, "EASE_OUT")
        /\ (ez.status = "ACTIVE" /\ ez'.status = "ACTIVE") =>
                /\ ez'.start_val = ez.start_val /\ ez'.ease_type = ez.ease_type
                /\ ShownEase(state', OtherSide(ez.ease_type)) =
                        ShownEase(state, OtherSide(ez.ease_type))
        /\ (ez.status = "ACTIVE" /\ ez'.status = "CANCELED") =>
                /\ ShownEase(state', ez.ease_type) = ez.start_val
                /\ ShownEase(state', OtherSide(ez.ease_type)) =
                        ShownEase(state, OtherSide(ez.ease_type))
      ]_vars

\* A canceled ease gesture that had dragged: the side shows its starting
\* value, which was not the default.
C28_Witness ==
    /\ ez.status = "CANCELED" /\ ez.applied
    /\ ShownEase(state, ez.ease_type) = ez.start_val
    /\ ez.start_val # R(1)

\* ---------------------------------------------------------------- C29
\* The two lists hold the same channels, each as often in one as in the other.
SameChannels(a, b) ==
    /\ Len(a) = Len(b)
    /\ \A ch \in Range(a) \cup Range(b) :
            Cardinality({i \in 1..Len(a) : a[i] = ch}) =
            Cardinality({i \in 1..Len(b) : b[i] = ch})

\* No snapshot is in two channels of the list, or twice in one.
ChannelsDisjoint(groups) ==
    LET items == ConcatAll(groups)
    IN  \A i, j \in 1..Len(items) : items[i] = items[j] => i = j

\* C29: the list a stagger gesture begins with holds every selected snapshot
\* in exactly one channel and is ordered as a rearrangement of itself, and no
\* step of the gesture (move, reseed, commit, cancel) changes the list built
\* at begin or makes the ordered list anything but a rearrangement of it.
C29_OrderedListIsPermutation ==
    [][ /\ (st.status # "ACTIVE" /\ st'.status = "ACTIVE") =>
                /\ ChannelsDisjoint(st'.groups_orig)
                /\ Len(ConcatAll(st'.groups_orig)) = Len(_collect_selected_keyframes(kps, action))
                /\ SameChannels(st'.groups, st'.groups_orig)
        /\ st.status = "ACTIVE" =>
                /\ st'.groups_orig = st.groups_orig
                /\ SameChannels(st'.groups, st.groups_orig)
      ]_vars

\* A RANDOM gesture on three channels after a reseed and a move, in an order
\* that is neither the forward one nor its reversal.
C29_Witness ==
    /\ st.status = "ACTIVE" /\ st.mode = "RANDOM"
    /\ Len(st.groups) = 3
    /\ st.seed # DefaultSeed
    /\ st.last_delta \notin {<<>>, <<0>>}
    /\ st.groups # st.groups_orig /\ st.groups # Reverse(st.groups_orig)

\* ---------------------------------------------------------------- C30
\* C30: the stagger operator holds a registered feedback draw handler exactly
\* while its gesture is ACTIVE: none before a begin or after a begin that
\* aborted, one from a successful begin on, and after commit or cancel none,
\* with exactly one removal made by that gesture.
C30_HandlerWhileActive ==
    /\ st.handler <=> st.status = "ACTIVE"
    /\ st.removes = IF st.status \in {"COMMITTED", "CANCELED"} THEN 1 ELSE 0
    /\ (last_invoke.op = "anim.ez_stagger_modal" /\ last_invoke.result = "CANCELLED") =>
            ~st.handler

\* A canceled gesture: the handler is gone after one removal.
C30_Witness ==
    /\ st.status = "CANCELED"
    /\ ~st.handler /\ st.removes = 1

\* ---------------------------------------------------------------- C31
\* C31: the overlay's dragging flag names a side exactly while an ease
\* gesture on that side is ACTIVE and is none otherwise; so a redraw inside an
\* ease gesture keeps the shown ease values, and a redraw outside one that
\* finds a selection shows the values computed from the live keyframes.
C31_DraggingFlagWhileActive ==
    /\ state.dragging_ease = IF ez.status = "ACTIVE" THEN ez.ease_type ELSE NONE
    /\ LET drawn == draw_widgets(state, kps, action)
       IN  IF ez.status = "ACTIVE"
           THEN drawn.ease_in = state.ease_in /\ drawn.ease_out = state.ease_out
           ELSE drawn.has_selection =>
                    <<drawn.ease_in, drawn.ease_out>> = _calculate_current_ease(kps, action)

\* An ease gesture after a drag, showing a value for the dragged side that
\* the live keyframes would not give.
C31_Witness ==
    /\ ez.status = "ACTIVE" /\ ez.applied
    /\ state.dragging_ease = ez.ease_type
    /\ <<state.ease_in, state.ease_out>> # _calculate_current_ease(kps, action)

\* ---------------------------------------------------------------- C32
\* The selected keyframes of the curves of the actions the objects use.
SelectedKeyframes ==
    UNION {{kps[c][i].kid : i \in {j \in 1..Len(kps[c]) : kps[c][j].sel}} :
                c \in {d \in Curves : \E o \in Range(Objects) :
                            CurveInfo[d].action = action[o]}}

\* C32: _collect_selected_keyframes returns one snapshot for each selected
\* keyframe and no two for the same keyframe, and no keyframe has snapshots in
\* two channels of a running stagger gesture.
C32_OneSnapshotPerKeyframe ==
    LET selected == _collect_selected_keyframes(kps, action)
    IN  /\ {selected[i].kid : i \in 1..Len(selected)} = SelectedKeyframes
        /\ \A i, j \in 1..Len(selected) : selected[i].kid = selected[j].kid => i = j
        /\ st.status = "ACTIVE" =>
                \A g, h \in 1..Len(st.groups) :
                    (\E x \in Range(st.groups[g]) : \E y \in Range(st.groups[h]) : x.kid = y.kid)
                        => g = h

\* ---------------------------------------------------------------- C33
\* C33: during a stagger gesture a snapshot whose object keeps its action
\* resolves to the keyframe it was captured from, whatever the applies and
\* the re-sorts of its curve before.
C33_ResolvesToCaptured ==
    st.status = "ACTIVE" =>
        \A it \in Range(ConcatAll(st.groups)) :
            Resolvable(it) => Resolved(it).kid = it.kid

\* ---------------------------------------------------------------- C34
\* C34: an ease gesture that is begun and then committed with no pointer move
\* in between changes no keyframe: the step that begins it, every step taken
\* while it is active and no move has been applied, and the step that commits
\* it leave all keyframe data as they were, so that on commit every snapshot's
\* keyframe still has the handles captured at the click.
C34_ClickReleaseChangesNothing ==
    [][ /\ ((ez.status # "ACTIVE" \/ ~ez.applied) /\ ez'.status = "ACTIVE" /\ ~ez'.applied)
                => kps' = kps
        /\ (ez.status = "ACTIVE" /\ ~ez.applied /\ ez'.status = "COMMITTED")
                => /\ kps' = kps
                   /\ \A j \in 1..Len(ez.data) :
                           HandlesAsCaptured(Captured(ez.data[j]), ez.data[j]) ]_vars

\* An ease gesture committed with no move applied, over a keyframe with a
\* handle that is not FREE.
C34_Witness ==
    /\ ez.status = "COMMITTED" /\ ~ez.applied
    /\ \E j \in 1..Len(ez.data) :
            ez.data[j].hl_type # "FREE" \/ ez.data[j].hr_type # "FREE"

\* ---------------------------------------------------------------- C35
\* The handle of keyframe kp on the side the ease gesture does not work on:
\* the right handle for ease-in, the left handle for ease-out.
OppositeHandle(kp) ==
    IF ez.ease_type = "EASE_IN" THEN <<kp.hr_x, kp.hr_y, kp.hr_type>>
    ELSE <<kp.hl_x, kp.hl_y, kp.hl_type>>

\* C35: an ease pointer move leaves the opposite side's handle of every
\* snapshotted keyframe as it was, in time, value and interpolation kind.
C35_OppositeHandleUntouched ==
    [][ \A e \in DragEvents :
            (ez.status = "ACTIVE" /\ EaseModal(e)) =>
                \A j \in 1..Len(ez.data) :
                    LET at == ResolvesTo(ez.data[j])
                    IN  at # NoKey =>
                            \E i \in 1..Len(kps'[at.fc]) :
                                /\ kps'[at.fc][i].kid = kps[at.fc][at.i].kid
                                /\ OppositeHandle(kps'[at.fc][i]) = OppositeHandle(kps[at.fc][at.i])
      ]_vars

\* ---------------------------------------------------------------- C36
\* C36: the cached gizmo list is non-empty only if the cached channel count is
\* at least 2 and a selection is flagged present; and a redraw that finds no
\* selection leaves the gizmo list and the slider bounds empty and the
\* has-selection flag false.
C36_GizmoListConsistent ==
    /\ state.gizmo_positions # <<>> => state.num_groups >= 2 /\ state.has_selection
    /\ LET drawn == draw_widgets(state, kps, action)
       IN  _collect_selected_keyframes(kps, action) = <<>> =>
               /\ drawn.gizmo_positions = <<>>
               /\ drawn.ease_slider_bounds = <<>>
               /\ ~drawn.has_selection

\* A redraw found no selection where an earlier one had found one: the
\* bounding box of the earlier draw is still cached, the lists are empty.
C36_Witness ==
    /\ _collect_selected_keyframes(kps, action) = <<>>
    /\ state.bbox # <<>>
    /\ ~state.has_selection
    /\ state.gizmo_positions = <<>> /\ state.ease_slider_bounds = <<>>
    /\ draw_widgets(state, kps, action) = state

\* ---------------------------------------------------------------- C37
\* No scroll-wheel event of a NORMAL or REVERSE gesture can change the held
\* seed, the channel order or a keyframe.
WheelInert ==
    (st.status = "ACTIVE" /\ st.mode \in {"NORMAL", "REVERSE"}) =>
        \A e \in WheelEvents :
            ~ENABLED (/\ StaggerModal(e)
                      /\ (st'.seed # st.seed \/ st'.groups # st.groups \/ kps' # kps))

\* C37: a stagger gesture in NORMAL or REVERSE mode never changes the seed:
\* its scroll-wheel events change neither the held seed, the channel order
\* nor any keyframe, and the step that commits it leaves the seed stored in
\* the overlay state as it was before the gesture, however the gesture was
\* started.
C37_NormalReverseKeepSeed ==
    [][ /\ WheelInert
        /\ (st.status = "ACTIVE" /\ st.mode \in {"NORMAL", "REVERSE"}
                /\ st'.status = "COMMITTED")
                => state'.random_seed = state.random_seed ]_vars

====
